---------------------------- MODULE Spec2Model ----------------------------
(***************************************************************************)
(* The undoable state store (src/hooks/useLocalStorage.ts) and the state   *)
(* mutation handlers of the App component (src/App.tsx) of the             *)
(* personal-taskmanager repository.                                        *)
(*                                                                         *)
(* A JSON object whose key order can vary (AppState, the comments and      *)
(* activityLog maps, the values handed to the generic hook) is a sequence  *)
(* of <<key, value>> pairs in insertion order, as JavaScript keeps it.     *)
(* Projects, tasks, comments and log entries are records: every code path  *)
(* builds them with the same keys.  Arrays are sequences.  currentIndex is *)
(* 0-based as in the code, so the current state is history[currentIndex+1].*)
(***************************************************************************)
EXTENDS Integers, Sequences, FiniteSets, TLC

VARIABLES
    history,       \* useUndoableState: const [history, setHistory]
    currentIndex,  \* useUndoableState: const [currentIndex, setCurrentIndex]
    modalState,    \* App: const [modalState, setModalState]
    persistedState, \* useLocalStorage: const [storedValue, setStoredValue]
    localStorage,  \* window.localStorage: the item under the key focusflow_data
    lastOp         \* the operation that produced this state (observation only)

vars == <<history, currentIndex, modalState, persistedState, localStorage, lastOp>>

(***************************************************************************)
(* Bounds of the model and constants of the program.                       *)
(***************************************************************************)
HistoryCap == 50

MaxHist == 3

MaxVal == 1

NULL == "null"

\* The persistence is followed by the specifications of the store (SpecStore,
\* SpecStoreLive); the others leave it out of their view.
Untracked == "untracked"

StoreUntracked == persistedState = Untracked /\ localStorage = Untracked

\* a step that sets neither storedValue nor the item
StoreIdle == UNCHANGED <<persistedState, localStorage>>

(***************************************************************************)
(* JSON objects as insertion-ordered key/value pairs.                      *)
(***************************************************************************)
Keys(o) == {o[i][1] : i \in 1..Len(o)}

Has(o, k) == k \in Keys(o)

\* o[k]
Get(o, k) == o[CHOOSE i \in 1..Len(o) : o[i][1] = k][2]

\* o[k] || []
GetOr(o, k) == IF Has(o, k) THEN Get(o, k) ELSE <<>>

\* { ...o, [k]: v }: an existing key keeps its position, a new key goes last
Put(o, k, v) ==
    IF Has(o, k)
    THEN [i \in 1..Len(o) |-> IF o[i][1] = k THEN <<k, v>> ELSE o[i]]
    ELSE Append(o, <<k, v>>)

IsKey(pair, k) == pair[1] = k

\* const c = { ...o }; delete c[k]
Del(o, k) == SelectSeq(o, LAMBDA pair : ~IsKey(pair, k))

\* JSON.stringify of an object: its keys and values in insertion order
Stringify(o) ==
    [i \in 1..(2 * Len(o)) |->
        IF i % 2 = 1 THEN o[(i + 1) \div 2][1] ELSE o[i \div 2][2]]

\* structural equality that ignores key order
DeepEqual(x, y) ==
    /\ Keys(x) = Keys(y)
    /\ \A k \in Keys(x) : Get(x, k) = Get(y, k)

(***************************************************************************)
(* useUndoableState                                                        *)
(***************************************************************************)
State == history[currentIndex + 1]

canUndo == currentIndex > 0

canRedo == currentIndex < Len(history) - 1

\* setState without the eviction at the cap
SetStateResult_NoEvict(h, i, resolved) ==
    IF Stringify(resolved) = Stringify(h[i + 1])
    THEN [history |-> h, currentIndex |-> i]
    ELSE [history |-> Append(SubSeq(h, 1, i + 1), resolved), currentIndex |-> i + 1]

\* setState that appends without discarding the redoable snapshots
SetStateResult_NoTruncate(h, i, resolved) ==
    IF Stringify(resolved) = Stringify(h[i + 1])
    THEN [history |-> h, currentIndex |-> i]
    ELSE LET newHistory == Append(h, resolved)
         IN  IF Len(newHistory) > HistoryCap
             THEN [history |-> Tail(newHistory), currentIndex |-> Len(newHistory) - 2]
             ELSE [history |-> newHistory, currentIndex |-> Len(newHistory) - 1]

\* setState(newState): the history and cursor it leaves, resolved being the
\* value, or the updater's result on the current state
SetStateResult(h, i, resolved) ==
    IF Stringify(resolved) = Stringify(h[i + 1])
    THEN [history |-> h, currentIndex |-> i]
    ELSE LET newHistory == Append(SubSeq(h, 1, i + 1), resolved)
         IN  IF Len(newHistory) > HistoryCap
             THEN [history |-> Tail(newHistory), currentIndex |-> Len(Tail(newHistory)) - 1]
             ELSE [history |-> newHistory, currentIndex |-> Len(newHistory) - 1]

\* undo that stops one snapshot early
UndoIndex_Early(h, i) == IF i > 1 THEN i - 1 ELSE i

\* undo(): the cursor it leaves
UndoIndex(h, i) == IF i > 0 THEN i - 1 ELSE i

\* redo(): the cursor it leaves
RedoIndex(h, i) == IF i < Len(h) - 1 THEN i + 1 ELSE i

\* resetState that keeps a second entry and the cursor on it
ResetStateResult_Keep(newState) == [history |-> <<newState, newState>>, currentIndex |-> 1]

\* resetState that replaces the history and leaves the cursor where it was
ResetStateResult_KeepCursor(newState) == [history |-> <<newState>>, currentIndex |-> currentIndex]

\* resetState(newState)
ResetStateResult(newState) == [history |-> <<newState>>, currentIndex |-> 0]

SetState(resolved) ==
    LET r == SetStateResult(history, currentIndex, resolved)
    IN  /\ history' = r.history
        /\ currentIndex' = r.currentIndex

\* what an accepted setState records about the step that made it
SetInfo(resolved) ==
    [v |-> resolved, i |-> currentIndex, n |-> Len(history),
     acc |-> Stringify(resolved) # Stringify(State)]

(***************************************************************************)
(* The hook on its own, driven with two snapshots up to the cap.           *)
(***************************************************************************)
HistValues == { <<<<"n", 0>>>>, <<<<"n", 1>>>> }

HistInit ==
    /\ history \in {<<v>> : v \in HistValues}
    /\ currentIndex = 0
    /\ modalState = [type |-> "CLOSED"]
    /\ lastOp = [op |-> "init", arg |-> NULL, prev |-> "init"]
    /\ StoreUntracked

HistSetState ==
    \E v \in HistValues :
        /\ SetState(v)
        /\ StoreIdle
        /\ lastOp' = [op |-> "setState", arg |-> SetInfo(v), prev |-> lastOp.op]
        /\ UNCHANGED modalState

HistUndo ==
    /\ currentIndex' = UndoIndex(history, currentIndex)
    /\ StoreIdle
    /\ lastOp' = [op |-> "undo", arg |-> currentIndex, prev |-> lastOp.op]
    /\ UNCHANGED <<history, modalState>>

HistRedo ==
    /\ currentIndex' = RedoIndex(history, currentIndex)
    /\ StoreIdle
    /\ lastOp' = [op |-> "redo", arg |-> currentIndex, prev |-> lastOp.op]
    /\ UNCHANGED <<history, modalState>>

HistReset ==
    \E v \in HistValues :
        /\ history' = ResetStateResult(v).history
        /\ currentIndex' = ResetStateResult(v).currentIndex
        /\ StoreIdle
        /\ lastOp' = [op |-> "resetState", arg |-> [v |-> v, i |-> currentIndex, n |-> Len(history)],
                      prev |-> lastOp.op]
        /\ UNCHANGED modalState

HistNext == HistSetState \/ HistUndo \/ HistRedo \/ HistReset

SpecHist == HistInit /\ [][HistNext]_vars

(***************************************************************************)
(* The hook on its own, driven with objects that differ in key order.      *)
(***************************************************************************)
EqValues ==
    { <<<<"a", x>>, <<"b", y>>>> : x \in 0..MaxVal, y \in 0..MaxVal } \cup
    { <<<<"b", y>>, <<"a", x>>>> : x \in 0..MaxVal, y \in 0..MaxVal }

\* updaters handed to setState(prev => ...)
Updaters == {"same", "rebuilt", "bump"}

ApplyUpdater(f, s) ==
    CASE f = "same"    -> s                                       \* prev => prev
      [] f = "rebuilt" -> <<<<"b", Get(s, "b")>>, <<"a", Get(s, "a")>>>>  \* prev => ({b: prev.b, a: prev.a})
      [] f = "bump"    -> Put(s, "a", (Get(s, "a") + 1) % (MaxVal + 1))  \* prev => ({...prev, a: ...})

EqInit ==
    /\ history \in {<<v>> : v \in EqValues}
    /\ currentIndex = 0
    /\ modalState = [type |-> "CLOSED"]
    /\ lastOp = [op |-> "init", arg |-> NULL, prev |-> "init"]
    /\ StoreUntracked

EqSetState ==
    /\ Len(history) < MaxHist
    /\ \E v \in EqValues :
        /\ SetState(v)
        /\ StoreIdle
        /\ lastOp' = [op |-> "setState", arg |-> SetInfo(v), prev |-> lastOp.op]
        /\ UNCHANGED modalState

EqSetUpdater ==
    /\ Len(history) < MaxHist
    /\ \E f \in Updaters :
        LET v == ApplyUpdater(f, State)
        IN  /\ SetState(v)
            /\ StoreIdle
            /\ lastOp' = [op |-> "setState", arg |-> SetInfo(v), prev |-> lastOp.op]
            /\ UNCHANGED modalState

EqNext == EqSetState \/ EqSetUpdater \/ HistUndo \/ HistRedo

SpecEq == EqInit /\ [][EqNext]_vars

(***************************************************************************)
(* AppState and the values the handlers build (src/types.ts).  A task      *)
(* carries the fields the handlers read or write; the other form fields    *)
(* (description, priority, dates, tags) travel with title and status and    *)
(* are not modelled.  Date.now() ids are names no retained snapshot uses.   *)
(***************************************************************************)
MaxProjects == 2

MaxTasks == 3

MaxSteps == 6

ProjectIdPool == <<"p1", "p2", "p3", "p4", "p5", "p6", "p7", "p8">>

TaskIdPool == <<"t1", "t2", "t3", "t4", "t5", "t6", "t7", "t8">>

TaskStatus == {"To Do", "In Progress", "Done"}

\* useLocalStorage's initialValue in App
EmptyState ==
    << <<"projects", <<>> >>, <<"tasks", <<>> >>,
       <<"comments", <<>> >>, <<"activityLog", <<>> >> >>

Range(s) == {s[i] : i \in 1..Len(s)}

Map(s, F(_)) == [i \in 1..Len(s) |-> F(s[i])]

Projects(s) == Get(s, "projects")

Tasks(s) == Get(s, "tasks")

Comments(s) == Get(s, "comments")

ActivityLog(s) == Get(s, "activityLog")

ProjectIdsOf(s) == {p.id : p \in Range(Projects(s))}

TaskIdsOf(s) == {t.id : t \in Range(Tasks(s))}

\* list.find(x => x.id === id)
Find(list, id) == list[CHOOSE i \in 1..Len(list) : list[i].id = id /\ \A j \in 1..(i - 1) : list[j].id # id]

\* list.reduce((max, x) => Math.max(x.order, max), -1)
MaxOrder(list) ==
    IF Len(list) = 0 THEN -1
    ELSE CHOOSE m \in {list[i].order : i \in 1..Len(list)} :
            \A i \in 1..Len(list) : list[i].order <= m

RECURSIVE SortByOrder(_)
\* list.sort((a, b) => a.order - b.order): stable
SortByOrder(list) ==
    IF Len(list) <= 1 THEN list
    ELSE LET sortedRest == SortByOrder(SubSeq(list, 1, Len(list) - 1))
             x == list[Len(list)]
             before == SelectSeq(sortedRest, LAMBDA y : y.order <= x.order)
             after == SelectSeq(sortedRest, LAMBDA y : y.order > x.order)
         IN  before \o <<x>> \o after

\* list.map((t, index) => ({ ...t, order: index }))
Renumber(list) == [i \in 1..Len(list) |-> [list[i] EXCEPT !.order = i - 1]]

\* createActivityLog(projectId, action); new Date() is later than the timestamp
\* of every entry a retained snapshot holds
createActivityLog(projectId, action) ==
    [timestamp |-> currentIndex + 1, author |-> "You", action |-> action]

\* { ...log, [projectId]: [...(log[projectId] || []), entry] }
AppendLog(log, projectId, entry) ==
    Put(log, projectId, Append(GetOr(log, projectId), entry))

\* ids carried by a snapshot
IdsIn(s) == ProjectIdsOf(s) \cup TaskIdsOf(s) \cup Keys(Comments(s)) \cup Keys(ActivityLog(s))

\* ids of the snapshots a push keeps (those up to the cursor)
UsedIds == UNION {IdsIn(history[i]) : i \in 1..(currentIndex + 1)}

\* `proj_${Date.now()}`, `task_${Date.now()}`
FreshId(pool) == pool[CHOOSE i \in 1..Len(pool) : pool[i] \notin UsedIds /\ \A j \in 1..(i - 1) : pool[j] \in UsedIds]

(***************************************************************************)
(* The updaters the handlers of App hand to setState: current => next.     *)
(***************************************************************************)
\* handleSaveProject, modalState.type === 'EDIT_PROJECT'
EditProjectUpdate(current, project, projectData) ==
    LET updatedProject == [project EXCEPT !.name = projectData.name]
    IN  Put(Put(current, "projects",
                Map(Projects(current), LAMBDA p : IF p.id = project.id THEN updatedProject ELSE p)),
            "activityLog",
            AppendLog(ActivityLog(current), updatedProject.id,
                      createActivityLog(updatedProject.id, "edited project details")))

\* handleSaveProject that numbers a new project by the count of projects
CreateProjectUpdate_CountProjects(current, projectData, newId) ==
    LET newProject == [id |-> newId,
                       order |-> Len(Projects(current)),
                       isArchived |-> FALSE,
                       name |-> projectData.name]
    IN  Put(Put(current, "projects", Append(Projects(current), newProject)),
            "activityLog",
            Put(ActivityLog(current), newId,
                <<createActivityLog(newId, "created project")>>))

\* handleSaveProject, otherwise: a new project
CreateProjectUpdate(current, projectData, newId) ==
    LET newProject == [id |-> newId,
                       order |-> MaxOrder(Projects(current)) + 1,
                       isArchived |-> FALSE,
                       name |-> projectData.name]
    IN  Put(Put(current, "projects", Append(Projects(current), newProject)),
            "activityLog",
            Put(ActivityLog(current), newId,
                <<createActivityLog(newId, "created project")>>))

\* confirmDeleteProject that keeps the project's tasks
DeleteProjectUpdate_KeepTasks(current, id) ==
    << <<"projects", SelectSeq(Projects(current), LAMBDA p : p.id # id)>>,
       <<"tasks", Tasks(current)>>,
       <<"comments", Del(Comments(current), id)>>,
       <<"activityLog", Del(ActivityLog(current), id)>> >>

\* confirmDeleteProject
DeleteProjectUpdate(current, id) ==
    << <<"projects", SelectSeq(Projects(current), LAMBDA p : p.id # id)>>,
       <<"tasks", SelectSeq(Tasks(current), LAMBDA t : t.projectId # id)>>,
       <<"comments", Del(Comments(current), id)>>,
       <<"activityLog", Del(ActivityLog(current), id)>> >>

\* handleToggleArchive
ToggleArchiveUpdate(current, projectId) ==
    IF projectId \notin ProjectIdsOf(current) THEN current
    ELSE LET project == Find(Projects(current), projectId)
             isArchiving == ~project.isArchived
             log == createActivityLog(projectId,
                        IF isArchiving THEN "archived project" ELSE "restored project")
         IN  Put(Put(current, "projects",
                     Map(Projects(current),
                         LAMBDA p : IF p.id = projectId THEN [p EXCEPT !.isArchived = isArchiving] ELSE p)),
                 "activityLog", AppendLog(ActivityLog(current), projectId, log))

\* the move branch of handleSaveTask with the moved task placed first
MoveTaskTasks_First(tasks, originalTask, taskData, newProjectId, newParentId) ==
    LET tempTask == [originalTask EXCEPT !.title = taskData.title, !.status = taskData.status,
                                         !.projectId = newProjectId, !.parentId = newParentId]
        otherTasks == SelectSeq(tasks, LAMBDA t : t.id # originalTask.id)
        oldSiblings == Renumber(SortByOrder(SelectSeq(otherTasks,
                            LAMBDA t : t.projectId = originalTask.projectId
                                       /\ t.parentId = originalTask.parentId)))
    IN  Append(Map(otherTasks, LAMBDA t : IF t.id \in {o.id : o \in Range(oldSiblings)}
                                            THEN Find(oldSiblings, t.id) ELSE t),
               [tempTask EXCEPT !.order = 0])

\* the move branch of handleSaveTask (hasMoved): finalTasks
MoveTaskTasks(tasks, originalTask, taskData, newProjectId, newParentId) ==
    LET taskWithData == [originalTask EXCEPT !.title = taskData.title, !.status = taskData.status]
        tempTask == [taskWithData EXCEPT !.projectId = newProjectId, !.parentId = newParentId]
        otherTasks == SelectSeq(tasks, LAMBDA t : t.id # originalTask.id)
        oldSiblings == Renumber(SortByOrder(SelectSeq(otherTasks,
                            LAMBDA t : t.projectId = originalTask.projectId
                                       /\ t.parentId = originalTask.parentId)))
        newSiblings == SelectSeq(otherTasks,
                            LAMBDA t : t.projectId = newProjectId /\ t.parentId = newParentId)
        taskWithNewOrder == [tempTask EXCEPT !.order = Len(newSiblings)]
    IN  Append(Map(otherTasks, LAMBDA t : IF t.id \in {o.id : o \in Range(oldSiblings)}
                                            THEN Find(oldSiblings, t.id) ELSE t),
               taskWithNewOrder)

\* handleSaveTask's edit branch with "edited task" logged on the destination project
EditTaskUpdate_LogOnDestination(current, originalTask, taskData, newProjectId, newParentId) ==
    LET hasMoved == originalTask.projectId # newProjectId \/ originalTask.parentId # newParentId
        taskWithData == [originalTask EXCEPT !.title = taskData.title, !.status = taskData.status]
        finalTasks ==
            IF hasMoved
            THEN MoveTaskTasks(Tasks(current), originalTask, taskData, newProjectId, newParentId)
            ELSE Map(Tasks(current), LAMBDA t : IF t.id = originalTask.id THEN taskWithData ELSE t)
        logMoved ==
            IF hasMoved /\ originalTask.projectId # newProjectId
            THEN AppendLog(ActivityLog(current), newProjectId,
                           createActivityLog(newProjectId, "moved task"))
            ELSE ActivityLog(current)
        finalActivityLog ==
            AppendLog(logMoved, newProjectId, createActivityLog(newProjectId, "edited task"))
    IN  Put(Put(current, "tasks", finalTasks), "activityLog", finalActivityLog)

\* handleSaveTask, modalState.type === 'EDIT_TASK'
EditTaskUpdate(current, originalTask, taskData, newProjectId, newParentId) ==
    LET hasMoved == originalTask.projectId # newProjectId \/ originalTask.parentId # newParentId
        taskWithData == [originalTask EXCEPT !.title = taskData.title, !.status = taskData.status]
        finalTasks ==
            IF hasMoved
            THEN MoveTaskTasks(Tasks(current), originalTask, taskData, newProjectId, newParentId)
            ELSE Map(Tasks(current), LAMBDA t : IF t.id = originalTask.id THEN taskWithData ELSE t)
        logMoved ==
            IF hasMoved /\ originalTask.projectId # newProjectId
            THEN AppendLog(ActivityLog(current), newProjectId,
                           createActivityLog(newProjectId, "moved task"))
            ELSE ActivityLog(current)
        finalActivityLog ==
            AppendLog(logMoved, originalTask.projectId,
                      createActivityLog(originalTask.projectId, "edited task"))
    IN  Put(Put(current, "tasks", finalTasks), "activityLog", finalActivityLog)

\* handleSaveTask's create branch with the number of siblings as the new order
CreateTaskUpdate_CountSiblings(current, taskData, newProjectId, newParentId, newId) ==
    LET siblingTasks == SelectSeq(Tasks(current),
                            LAMBDA t : t.projectId = newProjectId /\ t.parentId = newParentId)
        newTask == [id |-> newId,
                    projectId |-> newProjectId,
                    parentId |-> newParentId,
                    isFocused |-> FALSE,
                    order |-> Len(siblingTasks),
                    title |-> taskData.title,
                    status |-> taskData.status]
    IN  Put(Put(current, "tasks", Append(Tasks(current), newTask)),
            "activityLog",
            AppendLog(ActivityLog(current), newProjectId,
                      createActivityLog(newProjectId, "created task")))

\* handleSaveTask, modalState.type === 'CREATE_TASK'
CreateTaskUpdate(current, taskData, newProjectId, newParentId, newId) ==
    LET siblingTasks == SelectSeq(Tasks(current),
                            LAMBDA t : t.projectId = newProjectId /\ t.parentId = newParentId)
        newTask == [id |-> newId,
                    projectId |-> newProjectId,
                    parentId |-> newParentId,
                    isFocused |-> FALSE,
                    order |-> MaxOrder(siblingTasks) + 1,
                    title |-> taskData.title,
                    status |-> taskData.status]
    IN  Put(Put(current, "tasks", Append(Tasks(current), newTask)),
            "activityLog",
            AppendLog(ActivityLog(current), newProjectId,
                      createActivityLog(newProjectId, "created task")))

RECURSIVE DeleteScan(_, _, _)
\* one current.tasks.forEach pass of handleDeleteTask from index k on
DeleteScan(tasks, k, tasksToDelete) ==
    IF k > Len(tasks) THEN tasksToDelete
    ELSE DeleteScan(tasks, k + 1,
            IF tasks[k].parentId # NULL /\ tasks[k].parentId \in tasksToDelete
            THEN tasksToDelete \cup {tasks[k].id}
            ELSE tasksToDelete)

\* a closure that stops after the direct children
TasksToDelete_ChildrenOnly(tasks, tasksToDelete) ==
    tasksToDelete \cup {t.id : t \in {x \in Range(tasks) : x.parentId \in tasksToDelete}}

\* a closure that makes one pass over the tasks only
TasksToDelete_OneScan(tasks, tasksToDelete) == DeleteScan(tasks, 1, tasksToDelete)

RECURSIVE TasksToDelete(_, _)
\* the while (search) loop of handleDeleteTask
TasksToDelete(tasks, tasksToDelete) ==
    LET scanned == DeleteScan(tasks, 1, tasksToDelete)
    IN  IF Cardinality(scanned) > Cardinality(tasksToDelete)
        THEN TasksToDelete(tasks, scanned)
        ELSE scanned

\* handleDeleteTask
DeleteTaskUpdate(current, taskId) ==
    IF taskId \notin TaskIdsOf(current) THEN current
    ELSE LET taskToDelete == Find(Tasks(current), taskId)
             tasksToDelete == TasksToDelete(Tasks(current), {taskId})
             log == createActivityLog(taskToDelete.projectId, "deleted task")
         IN  Put(Put(current, "tasks",
                     SelectSeq(Tasks(current), LAMBDA t : t.id \notin tasksToDelete)),
                 "activityLog",
                 AppendLog(ActivityLog(current), taskToDelete.projectId, log))

\* the updater of handleUpdateTaskStatus; task is the one found in the rendered state
UpdateTaskStatusUpdate(current, task, status) ==
    Put(Put(current, "tasks",
            Map(Tasks(current), LAMBDA t : IF t.id = task.id THEN [t EXCEPT !.status = status] ELSE t)),
        "activityLog",
        AppendLog(ActivityLog(current), task.projectId,
                  createActivityLog(task.projectId, "changed status of task")))

\* onToggleTaskFocus
ToggleTaskFocusUpdate(current, taskId) ==
    Put(current, "tasks",
        Map(Tasks(current), LAMBDA t : IF t.id = taskId THEN [t EXCEPT !.isFocused = ~t.isFocused] ELSE t))

\* handleAddComment
AddCommentUpdate(current, projectId, content) ==
    LET newComment == [projectId |-> projectId, authorName |-> "You", content |-> content]
        log == createActivityLog(projectId, "added a comment")
    IN  Put(Put(current, "comments",
                Put(Comments(current), projectId,
                    Append(GetOr(Comments(current), projectId), newComment))),
            "activityLog", AppendLog(ActivityLog(current), projectId, log))

\* confirmBulkDelete that keeps the tasks of the deleted projects
BulkDeleteUpdate_KeepTasks(current, idsToDelete) ==
    << <<"projects", SelectSeq(Projects(current), LAMBDA p : p.id \notin idsToDelete)>>,
       <<"tasks", Tasks(current)>>,
       <<"comments", SelectSeq(Comments(current), LAMBDA pair : pair[1] \notin idsToDelete)>>,
       <<"activityLog", SelectSeq(ActivityLog(current), LAMBDA pair : pair[1] \notin idsToDelete)>> >>

\* confirmBulkDelete that keeps the log buckets of the deleted projects
BulkDeleteUpdate_KeepLogs(current, idsToDelete) ==
    << <<"projects", SelectSeq(Projects(current), LAMBDA p : p.id \notin idsToDelete)>>,
       <<"tasks", SelectSeq(Tasks(current), LAMBDA t : t.projectId \notin idsToDelete)>>,
       <<"comments", SelectSeq(Comments(current), LAMBDA pair : pair[1] \notin idsToDelete)>>,
       <<"activityLog", ActivityLog(current)>> >>

\* confirmBulkDelete
BulkDeleteUpdate(current, idsToDelete) ==
    << <<"projects", SelectSeq(Projects(current), LAMBDA p : p.id \notin idsToDelete)>>,
       <<"tasks", SelectSeq(Tasks(current), LAMBDA t : t.projectId \notin idsToDelete)>>,
       <<"comments", SelectSeq(Comments(current), LAMBDA pair : pair[1] \notin idsToDelete)>>,
       <<"activityLog", SelectSeq(ActivityLog(current), LAMBDA pair : pair[1] \notin idsToDelete)>> >>

\* handleReorder that drops the dragged item after the target
handleReorder_After(draggedId, targetId, list, position) ==
    IF draggedId \notin {x.id : x \in Range(list)} THEN list
    ELSE LET draggedItem == Find(list, draggedId)
             reorderedList == SortByOrder(SelectSeq(list, LAMBDA x : x.id # draggedId))
         IN  IF targetId \notin {x.id : x \in Range(reorderedList)} THEN list
             ELSE LET found == CHOOSE i \in 1..Len(reorderedList) : reorderedList[i].id = targetId
                  IN  Renumber(SubSeq(reorderedList, 1, found) \o <<draggedItem>>
                               \o SubSeq(reorderedList, found + 1, Len(reorderedList)))

\* handleReorder without the targetIndex === -1 return: splice(-1, 0, x) puts the
\* dragged item before the last one, splice(0, 0, x) in front
handleReorder_NoTargetCheck(draggedId, targetId, list, position) ==
    IF draggedId \notin {x.id : x \in Range(list)} THEN list
    ELSE LET draggedItem == Find(list, draggedId)
             reorderedList == SortByOrder(SelectSeq(list, LAMBDA x : x.id # draggedId))
             found == IF targetId \in {x.id : x \in Range(reorderedList)}
                      THEN (CHOOSE i \in 1..Len(reorderedList) : reorderedList[i].id = targetId) - 1
                      ELSE -1
             moved == IF position = "bottom" THEN found + 1 ELSE found
             targetIndex == IF moved < 0 THEN Len(reorderedList) + moved ELSE moved
         IN  Renumber(SubSeq(reorderedList, 1, targetIndex) \o <<draggedItem>>
                      \o SubSeq(reorderedList, targetIndex + 1, Len(reorderedList)))

\* handleReorder that leaves the remainder in array order instead of sorting it
handleReorder_NoSort(draggedId, targetId, list, position) ==
    IF draggedId \notin {x.id : x \in Range(list)} THEN list
    ELSE LET draggedItem == Find(list, draggedId)
             reorderedList == SelectSeq(list, LAMBDA x : x.id # draggedId)
         IN  IF targetId \notin {x.id : x \in Range(reorderedList)} THEN list
             ELSE LET found == (CHOOSE i \in 1..Len(reorderedList) : reorderedList[i].id = targetId) - 1
                      targetIndex == IF position = "bottom" THEN found + 1 ELSE found
                  IN  Renumber(SubSeq(reorderedList, 1, targetIndex) \o <<draggedItem>>
                               \o SubSeq(reorderedList, targetIndex + 1, Len(reorderedList)))

\* handleReorder(draggedId, targetId, list, position)
handleReorder(draggedId, targetId, list, position) ==
    IF draggedId \notin {x.id : x \in Range(list)} THEN list
    ELSE LET draggedItem == Find(list, draggedId)
             reorderedList == SortByOrder(SelectSeq(list, LAMBDA x : x.id # draggedId))
         IN  IF targetId \notin {x.id : x \in Range(reorderedList)} THEN list
             ELSE LET found == (CHOOSE i \in 1..Len(reorderedList) : reorderedList[i].id = targetId) - 1
                      targetIndex == IF position = "bottom" THEN found + 1 ELSE found
                  IN  Renumber(SubSeq(reorderedList, 1, targetIndex) \o <<draggedItem>>
                               \o SubSeq(reorderedList, targetIndex + 1, Len(reorderedList)))

RECURSIVE BulkArchiveLog(_, _, _, _)
\* the log entries handleBulkArchive adds while it maps current.projects from index k on
BulkArchiveLog(projects, k, idsToArchive, updatedActivity) ==
    IF k > Len(projects) THEN updatedActivity
    ELSE BulkArchiveLog(projects, k + 1, idsToArchive,
            IF projects[k].id \in idsToArchive
            THEN AppendLog(updatedActivity, projects[k].id,
                           createActivityLog(projects[k].id, "archived project"))
            ELSE updatedActivity)

\* handleBulkArchive
BulkArchiveUpdate(current, idsToArchive) ==
    Put(Put(current, "projects",
            Map(Projects(current),
                LAMBDA p : IF p.id \in idsToArchive THEN [p EXCEPT !.isArchived = TRUE] ELSE p)),
        "activityLog", BulkArchiveLog(Projects(current), 1, idsToArchive, ActivityLog(current)))

\* handleReorderProjects that returns the reordered projects without the logs
ReorderProjectsUpdate_ClearLogs(current, draggedId, targetId) ==
    Put(Put(current, "projects", handleReorder(draggedId, targetId, Projects(current), "top")),
        "activityLog", <<>>)

\* handleReorderProjects
ReorderProjectsUpdate(current, draggedId, targetId) ==
    Put(current, "projects", handleReorder(draggedId, targetId, Projects(current), "top"))

(***************************************************************************)
(* TaskForm: the parents the edit form offers.                             *)
(***************************************************************************)
RECURSIVE DescendantsFrom(_, _, _)
\* the while (queue.length > 0) loop of getDescendants
DescendantsFrom(queue, descendants, tasks) ==
    IF Len(queue) = 0 THEN descendants
    ELSE LET currentId == Head(queue)
             children == SelectSeq(tasks, LAMBDA t : t.parentId = currentId)
             fresh == SelectSeq(children, LAMBDA c : c.id \notin descendants)
         IN  DescendantsFrom(Tail(queue) \o Map(fresh, LAMBDA c : c.id),
                             descendants \cup {c.id : c \in Range(fresh)}, tasks)

\* getDescendants(taskId, tasks)
getDescendants(taskId, tasks) == DescendantsFrom(<<taskId>>, {}, tasks)

\* possibleParentTasks that offers the descendants of the edited task too
possibleParentTasks_WithDescendants(taskToEdit, newProjectId, allTasks) ==
    {t.id : t \in {x \in Range(allTasks) :
                    x.projectId = newProjectId /\ x.id # taskToEdit.id}}

\* possibleParentTasks, as ids
possibleParentTasks(taskToEdit, newProjectId, allTasks) ==
    {t.id : t \in {x \in Range(allTasks) :
                    /\ x.projectId = newProjectId
                    /\ x.id # taskToEdit.id
                    /\ x.id \notin getDescendants(taskToEdit.id, allTasks)}}

\* the values the "Under Task" select can hold when the form is submitted: the
\* top level, an offered parent, or the task's own parent while the project
\* select is untouched
ParentChoices(taskToEdit, newProjectId, allTasks) ==
    {NULL} \cup possibleParentTasks(taskToEdit, newProjectId, allTasks)
           \cup (IF newProjectId = taskToEdit.projectId THEN {taskToEdit.parentId} ELSE {})

(***************************************************************************)
(* The App component.  While the Modal is open (isOpen, modalState.type    *)
(* other than CLOSED) it covers the Header and the Dashboard, so their      *)
(* intents arrive only while it is closed.                                 *)
(***************************************************************************)
TaskFormData == {[title |-> "a", status |-> "To Do"]}

ProjectFormData == {[name |-> "n"]}

CommentContents == {"c"}

Closed == modalState.type = "CLOSED"

\* room for one more snapshot within the explored depth
Room == currentIndex + 1 < MaxSteps

Note(op, arg) == lastOp' = [op |-> op, arg |-> arg, prev |-> "-"] /\ StoreIdle

\* a step that calls no setState
Quiet == lastOp' = [op |-> "none", arg |-> NULL, prev |-> "-"] /\ StoreIdle

Init ==
    /\ history = <<EmptyState>>
    /\ currentIndex = 0
    /\ modalState = [type |-> "CLOSED"]
    /\ lastOp = [op |-> "init", arg |-> NULL, prev |-> "-"]
    /\ StoreUntracked

\* Header onAddNewProject
OpenCreateProject ==
    /\ Closed /\ Room
    /\ Len(Projects(State)) < MaxProjects
    /\ modalState' = [type |-> "CREATE_PROJECT"]
    /\ Quiet
    /\ UNCHANGED <<history, currentIndex>>

\* Dashboard onEditProject
OpenEditProject ==
    /\ Closed /\ Room
    /\ \E p \in Range(Projects(State)) :
        modalState' = [type |-> "EDIT_PROJECT", project |-> p]
    /\ Quiet
    /\ UNCHANGED <<history, currentIndex>>

\* Dashboard onAddTask and onAddSubTask
OpenCreateTask ==
    /\ Closed /\ Room
    /\ Len(Tasks(State)) < MaxTasks
    /\ \/ \E p \in Range(Projects(State)) :
            modalState' = [type |-> "CREATE_TASK", projectId |-> p.id, parentId |-> NULL]
       \/ \E parentTask \in Range(Tasks(State)) :
            modalState' = [type |-> "CREATE_TASK", projectId |-> parentTask.projectId,
                           parentId |-> parentTask.id]
    /\ Quiet
    /\ UNCHANGED <<history, currentIndex>>

\* Dashboard onEditTask
OpenEditTask ==
    /\ Closed /\ Room
    /\ \E t \in Range(Tasks(State)) :
        modalState' = [type |-> "EDIT_TASK", task |-> t]
    /\ Quiet
    /\ UNCHANGED <<history, currentIndex>>

\* requestDeleteProject
RequestDeleteProject ==
    /\ Closed /\ Room
    /\ \E p \in Range(Projects(State)) :
        modalState' = [type |-> "CONFIRM_DELETE_PROJECT", project |-> p]
    /\ Quiet
    /\ UNCHANGED <<history, currentIndex>>

\* handleBulkDelete
RequestBulkDelete ==
    /\ Closed /\ Room
    /\ \E ids \in (SUBSET ProjectIdsOf(State)) \ {{}} :
        modalState' = [type |-> "CONFIRM_BULK_DELETE", projectIds |-> ids]
    /\ Quiet
    /\ UNCHANGED <<history, currentIndex>>

\* Modal onClose and the Cancel buttons
CloseModal ==
    /\ ~Closed
    /\ modalState' = [type |-> "CLOSED"]
    /\ Quiet
    /\ UNCHANGED <<history, currentIndex>>

\* handleSaveProject
SaveProject ==
    /\ modalState.type \in {"CREATE_PROJECT", "EDIT_PROJECT"}
    /\ \E projectData \in ProjectFormData :
        IF modalState.type = "EDIT_PROJECT"
        THEN /\ SetState(EditProjectUpdate(State, modalState.project, projectData))
             /\ Note("editProject", [id |-> modalState.project.id])
        ELSE LET newId == FreshId(ProjectIdPool)
             IN  /\ SetState(CreateProjectUpdate(State, projectData, newId))
                 /\ Note("createProject", [id |-> newId])
    /\ modalState' = [type |-> "CLOSED"]

\* confirmDeleteProject
ConfirmDeleteProject ==
    /\ modalState.type = "CONFIRM_DELETE_PROJECT"
    /\ SetState(DeleteProjectUpdate(State, modalState.project.id))
    /\ Note("deleteProject", [id |-> modalState.project.id])
    /\ modalState' = [type |-> "CLOSED"]

\* handleToggleArchive
ToggleArchive ==
    /\ Closed /\ Room
    /\ \E p \in Range(Projects(State)) :
        /\ SetState(ToggleArchiveUpdate(State, p.id))
        /\ Note("toggleArchive", [id |-> p.id])
    /\ UNCHANGED modalState

\* handleSaveTask
SaveTask ==
    /\ modalState.type \in {"CREATE_TASK", "EDIT_TASK"}
    /\ \E taskData \in TaskFormData :
        IF modalState.type = "EDIT_TASK"
        THEN \E newProjectId \in ProjectIdsOf(State) :
             \E newParentId \in ParentChoices(modalState.task, newProjectId, Tasks(State)) :
                /\ SetState(EditTaskUpdate(State, modalState.task, taskData, newProjectId, newParentId))
                /\ Note("editTask", [id |-> modalState.task.id, task |-> modalState.task,
                                     projectId |-> newProjectId, parentId |-> newParentId])
        ELSE LET newId == FreshId(TaskIdPool)
             IN  /\ SetState(CreateTaskUpdate(State, taskData, modalState.projectId,
                                              modalState.parentId, newId))
                 /\ Note("createTask", [id |-> newId])
    /\ modalState' = [type |-> "CLOSED"]

\* handleDeleteTask
DeleteTask ==
    /\ Closed /\ Room
    /\ \E t \in Range(Tasks(State)) :
        /\ SetState(DeleteTaskUpdate(State, t.id))
        /\ Note("deleteTask", [id |-> t.id])
    /\ UNCHANGED modalState

\* handleUpdateTaskStatus without the test of the task's current status
UpdateTaskStatus_NoStatusCheck ==
    /\ Closed /\ Room
    /\ \E t \in Range(Tasks(State)) : \E status \in TaskStatus :
        /\ SetState(UpdateTaskStatusUpdate(State, t, status))
        /\ Note("updateTaskStatus", [id |-> t.id, status |-> status])
    /\ UNCHANGED modalState

\* handleUpdateTaskStatus
UpdateTaskStatus ==
    /\ Closed /\ Room
    /\ \E t \in Range(Tasks(State)) : \E status \in TaskStatus :
        /\ IF t.status = status
           THEN UNCHANGED <<history, currentIndex>>
           ELSE SetState(UpdateTaskStatusUpdate(State, t, status))
        /\ Note("updateTaskStatus", [id |-> t.id, status |-> status])
    /\ UNCHANGED modalState

\* Dashboard onToggleTaskFocus
ToggleTaskFocus ==
    /\ Closed /\ Room
    /\ \E t \in Range(Tasks(State)) :
        /\ SetState(ToggleTaskFocusUpdate(State, t.id))
        /\ Note("toggleTaskFocus", [id |-> t.id])
    /\ UNCHANGED modalState

\* handleAddComment
AddComment ==
    /\ Closed /\ Room
    /\ \E p \in Range(Projects(State)) : \E content \in CommentContents :
        /\ SetState(AddCommentUpdate(State, p.id, content))
        /\ Note("addComment", [id |-> p.id])
    /\ UNCHANGED modalState

\* confirmBulkDelete
ConfirmBulkDelete ==
    /\ modalState.type = "CONFIRM_BULK_DELETE"
    /\ SetState(BulkDeleteUpdate(State, modalState.projectIds))
    /\ Note("bulkDelete", [ids |-> modalState.projectIds])
    /\ modalState' = [type |-> "CLOSED"]

\* handleBulkArchive
BulkArchive ==
    /\ Closed /\ Room
    /\ \E ids \in (SUBSET ProjectIdsOf(State)) \ {{}} :
        /\ SetState(BulkArchiveUpdate(State, ids))
        /\ Note("bulkArchive", [ids |-> ids])
    /\ UNCHANGED modalState

\* handleReorderProjects, called by a ProjectCard drop of another card
ReorderProjects ==
    /\ Closed /\ Room
    /\ \E draggedId \in ProjectIdsOf(State) : \E targetId \in ProjectIdsOf(State) \ {draggedId} :
        /\ SetState(ReorderProjectsUpdate(State, draggedId, targetId))
        /\ Note("reorderProjects", [draggedId |-> draggedId, targetId |-> targetId])
    /\ UNCHANGED modalState

\* Header undo
Undo ==
    /\ Closed
    /\ currentIndex' = UndoIndex(history, currentIndex)
    /\ Quiet
    /\ UNCHANGED <<history, modalState>>

\* Header redo
Redo ==
    /\ Closed
    /\ currentIndex' = RedoIndex(history, currentIndex)
    /\ Quiet
    /\ UNCHANGED <<history, modalState>>

Next ==
    \/ OpenCreateProject \/ OpenEditProject \/ OpenCreateTask \/ OpenEditTask
    \/ RequestDeleteProject \/ RequestBulkDelete \/ CloseModal
    \/ SaveProject \/ SaveTask \/ ConfirmDeleteProject \/ ConfirmBulkDelete
    \/ ToggleArchive \/ BulkArchive \/ ReorderProjects \/ DeleteTask \/ UpdateTaskStatus \/ ToggleTaskFocus \/ AddComment
    \/ Undo \/ Redo

Spec == Init /\ [][Next]_vars

(***************************************************************************)
(* handleReorder on its own: a list held by the hook, reordered through    *)
(* setState with every (draggedId, targetId, position).                    *)
(***************************************************************************)
MaxReorders == 2

MaxOrderValue == 3

ItemIds == {"T1", "T2", "T3"}

\* arrays of the three items in any arrangement, with distinct order values
ReorderLists ==
    {l \in [1..3 -> [id : ItemIds, order : 0..MaxOrderValue]] :
        \A i, j \in 1..3 : i # j => (l[i].id # l[j].id /\ l[i].order # l[j].order)}

ReorderInit ==
    /\ history \in {<< <<<<"list", l>>>> >> : l \in ReorderLists}
    /\ currentIndex = 0
    /\ modalState = [type |-> "CLOSED"]
    /\ lastOp = [op |-> "init", arg |-> NULL, prev |-> "-"]
    /\ StoreUntracked

\* setState(current => ({ ...current, list: handleReorder(draggedId, targetId, current.list, position) }))
Reorder ==
    /\ Len(history) <= MaxReorders
    /\ \E draggedId \in ItemIds \cup {"T9"} : \E targetId \in ItemIds \cup {"T9"} :
       \E position \in {"top", "bottom"} :
        /\ SetState(Put(State, "list", handleReorder(draggedId, targetId, Get(State, "list"), position)))
        /\ Note("reorder", [draggedId |-> draggedId, targetId |-> targetId, position |-> position])
    /\ UNCHANGED modalState

ReorderNext == Reorder \/ HistUndo \/ HistRedo

SpecReorder == ReorderInit /\ [][ReorderNext]_vars

(***************************************************************************)
(* The load-time migration and the import.  A stored or imported document  *)
(* is parsed JSON: a project or a task is an object with whichever keys    *)
(* the document gives it, its values being tokens ("null" is JSON null,    *)
(* "[]" an array).  The mount effect runs before any intent: lastOp.op is  *)
(* "mount" until it has run.                                               *)
(***************************************************************************)
MaxDocItems == 1

UNDEFINED == "undefined"

\* whether a token is truthy in JavaScript
Truthy(v) == v \notin {UNDEFINED, NULL, "false", ""}

\* o[k]: undefined when the key is absent
Prop(o, k) == IF Has(o, k) THEN Get(o, k) ELSE UNDEFINED

\* a || b
OrElse(a, b) == IF Truthy(a) THEN a ELSE b

RECURSIVE Spread(_, _)
\* { ...o, ...p }
Spread(o, p) == IF Len(p) = 0 THEN o ELSE Spread(Put(o, p[1][1], p[1][2]), Tail(p))

\* the migration effect's projects.map callback
MigrateProject(p) ==
    Spread(p, << <<"priority", OrElse(Prop(p, "priority"), "Medium")>>,
                 <<"isArchived", OrElse(Prop(p, "isArchived"), "false")>>,
                 <<"color", OrElse(Prop(p, "color"), "#334155")>>,
                 <<"members", OrElse(Prop(p, "members"), "[]")>>,
                 <<"goals", OrElse(Prop(p, "goals"), "[]")>>,
                 <<"links", OrElse(Prop(p, "links"), "[]")>> >>)

\* the migration effect's tasks.map callback
MigrateTask(t) == Put(t, "startDate", OrElse(Prop(t, "startDate"), Prop(t, "createdAt")))

\* handleImportData's projects.map callback
ImportProject(p) ==
    Spread(<< <<"priority", "Medium">>, <<"isArchived", "false">>, <<"color", "#334155">>,
              <<"members", "[]">>, <<"goals", "[]">>, <<"links", "[]">> >>, p)

\* handleImportData's tasks.map callback
ImportTask(t) == Put(t, "startDate", OrElse(Prop(t, "startDate"), Prop(t, "createdAt")))

\* needsMigration of the mount effect
needsMigration(oldState) ==
    \/ ~Has(oldState, "comments")
    \/ ~Has(oldState, "activityLog")
    \/ \E p \in Range(Projects(oldState)) : Prop(p, "color") = UNDEFINED
    \/ \E t \in Range(Tasks(oldState)) : Prop(t, "startDate") = UNDEFINED

\* migratedState of the mount effect
migratedState(oldState) ==
    << <<"projects", Map(GetOr(oldState, "projects"), MigrateProject)>>,
       <<"tasks", Map(GetOr(oldState, "tasks"), MigrateTask)>>,
       <<"comments", GetOr(oldState, "comments")>>,
       <<"activityLog", GetOr(oldState, "activityLog")>> >>

\* handleImportData: migratedData
handleImportData(data) ==
    << <<"projects", Map(GetOr(data, "projects"), ImportProject)>>,
       <<"tasks", Map(GetOr(data, "tasks"), ImportTask)>>,
       <<"comments", GetOr(data, "comments")>>,
       <<"activityLog", GetOr(data, "activityLog")>> >>

\* the keys a project of an older schema can lack
OptionalKeys == {"priority", "isArchived", "color", "members", "goals", "links"}

FullProject ==
    << <<"priority", "High">>, <<"isArchived", "true">>, <<"color", "#be123c">>,
       <<"members", "[]">>, <<"goals", "[]">>, <<"links", "[]">> >>

\* a falsy value a document can hold under key k
Falsy(k) == CASE k = "isArchived" -> "false" [] k = "color" -> "" [] OTHER -> NULL

\* a project with every optional key, with none, without a color, with one falsy
ProjectVariants ==
    {<<>>, FullProject, Del(FullProject, "color")}
    \cup {Put(FullProject, k, Falsy(k)) : k \in OptionalKeys}

TaskVariants == {<<>>, << <<"startDate", NULL>> >>, << <<"startDate", "d2">> >>}

ProjectDoc(i, variant) == << <<"id", ProjectIdPool[i]>>, <<"name", "n">> >> \o variant

TaskDoc(i, variant) ==
    << <<"id", TaskIdPool[i]>>, <<"projectId", ProjectIdPool[1]>>, <<"createdAt", "d1">> >> \o variant

ProjectArrays ==
    UNION {{[i \in 1..n |-> ProjectDoc(i, f[i])] : f \in [1..n -> ProjectVariants]} : n \in 0..MaxDocItems}

TaskArrays ==
    UNION {{[i \in 1..n |-> TaskDoc(i, f[i])] : f \in [1..n -> TaskVariants]} : n \in 0..MaxDocItems}

\* the documents localStorage can hold under focusflow_data, written by this or
\* an older version of the program
StoredDocs ==
    {<< <<"projects", ps>>, <<"tasks", ts>> >> \o c \o a :
        ps \in ProjectArrays, ts \in TaskArrays,
        c \in {<<>>, << <<"comments", <<>> >> >>},
        a \in {<<>>, << <<"activityLog", <<>> >> >>}}

\* A file handed to the import: its text parses to an object, to something
\* else, or not at all; obj holds the keys of a parsed object whose values are
\* arrays or maps, nonArrays the keys of projects and tasks that hold a value
\* that is not an array.
Shapes == {"array", "absent", "other"}

ShapedFile(ps, ts, items) ==
    [top |-> "object",
     nonArrays |-> (IF ps = "other" THEN {"projects"} ELSE {})
                   \cup (IF ts = "other" THEN {"tasks"} ELSE {}),
     obj |-> (IF ps = "array" THEN << <<"projects", items>> >> ELSE <<>>)
             \o (IF ts = "array" THEN << <<"tasks", <<>> >> >> ELSE <<>>)]

ImportFiles ==
    {[top |-> "object", nonArrays |-> {}, obj |-> d] : d \in {s \in StoredDocs : Len(s) # 3}}
    \cup {[top |-> t, nonArrays |-> {}, obj |-> <<>>] : t \in {"null", "number", "array", "invalid"}}
    \cup {ShapedFile(ps, ts, items) : ps \in Shapes, ts \in Shapes,
                                      items \in {<<>>, <<ProjectDoc(1, <<>>)>>}}

\* Array.isArray(data[k]) on the parsed text of the file
IsArrayIn(file, k) == file.top = "object" /\ Has(file.obj, k)

\* handleFileChange accepting only projects to be an array
ValidImport_ProjectsOnly(file) == IsArrayIn(file, "projects")

\* handleFileChange: the text parses and passes the shape check
ValidImport(file) == IsArrayIn(file, "projects") /\ IsArrayIn(file, "tasks")

\* what an import records about its file
ImportInfo(file, confirmed) ==
    [top |-> file.top,
     arrays |-> {k \in {"projects", "tasks"} : IsArrayIn(file, k)},
     confirmed |-> confirmed,
     reset |-> ValidImport(file) /\ confirmed,
     doc |-> IF ValidImport(file) /\ confirmed THEN file.obj ELSE <<>>,
     n |-> Len(history), i |-> currentIndex]

LoadInit ==
    /\ history \in {<<d>> : d \in StoredDocs}
    /\ currentIndex = 0
    /\ modalState = [type |-> "CLOSED"]
    /\ lastOp = [op |-> "mount", arg |-> NULL, prev |-> "-"]
    /\ StoreUntracked

\* the mount effect of App
MigrationEffect ==
    /\ lastOp.op = "mount"
    /\ IF needsMigration(State)
       THEN /\ history' = ResetStateResult(migratedState(State)).history
            /\ currentIndex' = ResetStateResult(migratedState(State)).currentIndex
       ELSE UNCHANGED <<history, currentIndex>>
    /\ StoreIdle
    /\ lastOp' = [op |-> "migrate",
                  arg |-> [reset |-> needsMigration(State), n |-> Len(history), i |-> currentIndex],
                  prev |-> "-"]
    /\ UNCHANGED modalState

\* Header handleFileChange, reader.onload, and handleImportData
ImportFile ==
    /\ lastOp.op # "mount"
    /\ \E file \in ImportFiles : \E confirmed \in BOOLEAN :
        /\ IF ValidImport(file) /\ confirmed
           THEN /\ history' = ResetStateResult(handleImportData(file.obj)).history
                /\ currentIndex' = ResetStateResult(handleImportData(file.obj)).currentIndex
           ELSE UNCHANGED <<history, currentIndex>>
        /\ StoreIdle
        /\ lastOp' = [op |-> "import", arg |-> ImportInfo(file, confirmed), prev |-> "-"]
    /\ UNCHANGED modalState

\* handleAddComment on a loaded state
LoadAddComment ==
    /\ lastOp.op # "mount"
    /\ Len(history) < MaxHist
    /\ \E p \in Range(Projects(State)) : \E content \in CommentContents :
        /\ SetState(AddCommentUpdate(State, Get(p, "id"), content))
        /\ Note("addComment", [id |-> Get(p, "id")])
    /\ UNCHANGED modalState

LoadUndo == lastOp.op # "mount" /\ HistUndo

LoadRedo == lastOp.op # "mount" /\ HistRedo

LoadNext == MigrationEffect \/ ImportFile \/ LoadAddComment \/ LoadUndo \/ LoadRedo

SpecLoad == LoadInit /\ [][LoadNext]_vars

(***************************************************************************)
(* App with ids that have gone stale.  reader.onload of an import runs     *)
(* when the file has been read, which can be after a form was opened: the   *)
(* import then replaces the state under the open form, whose modalState     *)
(* still holds the project or task it was opened on.  The Dashboard keeps   *)
(* its selectedProjects across state changes, so the bulk actions can carry *)
(* ids of projects that are gone.  The remaining handlers are also called   *)
(* with an id that is not in the current state.                            *)
(***************************************************************************)
\* an exported backup of an empty workspace
EmptyBackup == << <<"projects", <<>> >>, <<"tasks", <<>> >> >>

\* ids the Dashboard's selectedProjects can still hold: a project of the
\* current state, one that is gone but left a bucket, one that is gone entirely
SelectableIds ==
    ProjectIdsOf(State) \cup Keys(Comments(State)) \cup Keys(ActivityLog(State))
    \cup {ProjectIdPool[Len(ProjectIdPool)]}

\* ids of tasks that are not in the current state
MissingTaskIds ==
    ({TaskIdPool[Len(TaskIdPool)]}
     \cup (IF modalState.type = "EDIT_TASK" THEN {modalState.task.id} ELSE {}))
    \ TaskIdsOf(State)

\* reader.onload of an import that finishes while a form or a confirmation is open
ImportWhileOpen ==
    /\ ~Closed
    /\ history' = ResetStateResult(handleImportData(EmptyBackup)).history
    /\ currentIndex' = ResetStateResult(handleImportData(EmptyBackup)).currentIndex
    /\ Note("import", [reset |-> TRUE])
    /\ UNCHANGED modalState

\* handleSaveTask with the project select as the form holds it: a project of
\* the current state, or the task's project as set when the form was opened
SaveTaskRetained ==
    /\ modalState.type \in {"CREATE_TASK", "EDIT_TASK"}
    /\ \E taskData \in TaskFormData :
        IF modalState.type = "EDIT_TASK"
        THEN \E newProjectId \in ProjectIdsOf(State) \cup {modalState.task.projectId} :
             \E newParentId \in ParentChoices(modalState.task, newProjectId, Tasks(State)) :
                /\ SetState(EditTaskUpdate(State, modalState.task, taskData, newProjectId, newParentId))
                /\ Note("editTask", [id |-> modalState.task.id, task |-> modalState.task,
                                     projectId |-> newProjectId, parentId |-> newParentId])
        ELSE LET newId == FreshId(TaskIdPool)
             IN  /\ SetState(CreateTaskUpdate(State, taskData, modalState.projectId,
                                              modalState.parentId, newId))
                 /\ Note("createTask", [id |-> newId])
    /\ modalState' = [type |-> "CLOSED"]

\* handleBulkDelete with the Dashboard's selection
RequestBulkDeleteSelected ==
    /\ Closed /\ Room
    /\ \E ids \in (SUBSET SelectableIds) \ {{}} :
        modalState' = [type |-> "CONFIRM_BULK_DELETE", projectIds |-> ids]
    /\ Quiet
    /\ UNCHANGED <<history, currentIndex>>

\* handleBulkArchive with the Dashboard's selection
BulkArchiveSelected ==
    /\ Closed /\ Room
    /\ \E ids \in (SUBSET SelectableIds) \ {{}} :
        /\ SetState(BulkArchiveUpdate(State, ids))
        /\ Note("bulkArchive", [ids |-> ids])
    /\ UNCHANGED modalState

\* handleToggleArchive(projectId) with a project that is gone
MissToggleArchive ==
    /\ Closed /\ Room
    /\ \E id \in SelectableIds \ ProjectIdsOf(State) :
        /\ SetState(ToggleArchiveUpdate(State, id))
        /\ Note("toggleArchive", [id |-> id])
    /\ UNCHANGED modalState

\* handleDeleteTask(taskId) with a task that is gone
MissDeleteTask ==
    /\ Room
    /\ \E id \in MissingTaskIds :
        /\ SetState(DeleteTaskUpdate(State, id))
        /\ Note("deleteTask", [id |-> id])
    /\ UNCHANGED modalState

\* handleUpdateTaskStatus(taskId, status) with a task that is gone: find misses
MissUpdateTaskStatus ==
    /\ Room
    /\ \E id \in MissingTaskIds : \E status \in TaskStatus :
        /\ UNCHANGED <<history, currentIndex>>
        /\ Note("updateTaskStatus", [id |-> id])
    /\ UNCHANGED modalState

\* onToggleTaskFocus(taskId) with a task that is gone
MissToggleTaskFocus ==
    /\ Room
    /\ \E id \in MissingTaskIds :
        /\ SetState(ToggleTaskFocusUpdate(State, id))
        /\ Note("toggleTaskFocus", [id |-> id])
    /\ UNCHANGED modalState

StaleNext ==
    \/ OpenCreateProject \/ OpenEditProject \/ OpenCreateTask \/ OpenEditTask
    \/ RequestDeleteProject \/ RequestBulkDeleteSelected \/ CloseModal
    \/ SaveProject \/ SaveTaskRetained \/ ConfirmDeleteProject \/ ConfirmBulkDelete
    \/ BulkArchiveSelected \/ ImportWhileOpen
    \/ MissToggleArchive \/ MissDeleteTask \/ MissUpdateTaskStatus \/ MissToggleTaskFocus

SpecStale == Init /\ [][StaleNext]_vars

(***************************************************************************)
(* App with the Dashboard's render.  React renders App and the Dashboard   *)
(* after every change of App's state, before the next event; the Dashboard  *)
(* hands each visible project's log to its card through Array.sort, which   *)
(* sorts the array of the state object in place.  A snapshot that holds the *)
(* same array (no handler rebuilt that bucket in between) sees it sorted    *)
(* too; an array is identified by its entries, the last of which is unique. *)
(***************************************************************************)
RECURSIVE SortByTimestampDesc(_)
\* log.sort((a, b) => new Date(b.timestamp).getTime() - new Date(a.timestamp).getTime())
SortByTimestampDesc(list) ==
    IF Len(list) <= 1 THEN list
    ELSE LET sortedRest == SortByTimestampDesc(SubSeq(list, 1, Len(list) - 1))
             x == list[Len(list)]
             before == SelectSeq(sortedRest, LAMBDA y : y.timestamp >= x.timestamp)
             after == SelectSeq(sortedRest, LAMBDA y : y.timestamp < x.timestamp)
         IN  before \o <<x>> \o after

\* filteredData.projects with the filters as mounted but for showArchived
VisibleProjectIds(s, showArchived) ==
    {p.id : p \in {q \in Range(Projects(s)) : q.isArchived = showArchived}}

\* snapshot s after the arrays that appState holds under the visible ids were
\* sorted in place
SortedInPlace(s, appState, visible) ==
    Put(s, "activityLog",
        Map(ActivityLog(s),
            LAMBDA pair : IF /\ pair[1] \in visible
                             /\ Has(ActivityLog(appState), pair[1])
                             /\ pair[2] = Get(ActivityLog(appState), pair[1])
                          THEN <<pair[1], SortByTimestampDesc(pair[2])>>
                          ELSE pair))

\* the last step has been rendered
Rendered == lastOp.op \in {"init", "render"}

\* Dashboard render
RenderDashboard ==
    /\ ~Rendered
    /\ \E showArchived \in BOOLEAN :
        history' = Map(history,
                       LAMBDA s : SortedInPlace(s, State, VisibleProjectIds(State, showArchived)))
    /\ StoreIdle
    /\ lastOp' = [op |-> "render", arg |-> NULL, prev |-> "-"]
    /\ UNCHANGED <<currentIndex, modalState>>

\* the handlers, each on a rendered page
RenderOpenCreateProject == Rendered /\ OpenCreateProject

RenderSaveProject == Rendered /\ SaveProject

RenderCloseModal == Rendered /\ CloseModal

RenderAddComment == Rendered /\ AddComment

RenderToggleArchive == Rendered /\ ToggleArchive

\* Header undo
RenderUndo == Rendered /\ Closed /\ HistUndo

\* Header redo
RenderRedo == Rendered /\ Closed /\ HistRedo

RenderNext ==
    \/ RenderOpenCreateProject
    \/ RenderSaveProject
    \/ RenderCloseModal
    \/ RenderAddComment
    \/ RenderToggleArchive
    \/ RenderUndo
    \/ RenderRedo
    \/ RenderDashboard

SpecRender == Init /\ [][RenderNext]_vars

(***************************************************************************)
(* App mounted on a workspace saved by an earlier session: two projects,   *)
(* two top-level tasks in the first and one in the second.  The task       *)
(* handlers run from there.                                                *)
(***************************************************************************)
MaxTaskSteps == 5

\* an entry logged by the earlier session, n entries before its end
SavedLog(n, action) == [timestamp |-> 0 - n, author |-> "You", action |-> action]

\* a top-level task as handleSaveTask created it
SavedTask(i, projectId, order) ==
    [id |-> TaskIdPool[i], projectId |-> projectId, parentId |-> NULL,
     isFocused |-> FALSE, order |-> order, title |-> "a", status |-> "To Do"]

\* a project as handleSaveProject created it
SavedProject(i) ==
    [id |-> ProjectIdPool[i], order |-> i - 1, isArchived |-> FALSE, name |-> "n"]

\* the value under focusflow_data at mount
SavedWorkspace ==
    << <<"projects", <<SavedProject(1), SavedProject(2)>> >>,
       <<"tasks", <<SavedTask(1, ProjectIdPool[1], 0), SavedTask(2, ProjectIdPool[1], 1),
                    SavedTask(3, ProjectIdPool[2], 0)>> >>,
       <<"comments", <<>> >>,
       <<"activityLog",
         << <<ProjectIdPool[1], <<SavedLog(4, "created project"), SavedLog(2, "created task"),
                                  SavedLog(1, "created task")>> >>,
            <<ProjectIdPool[2], <<SavedLog(3, "created project"),
                                  SavedLog(0, "created task")>> >> >> >> >>

TasksInit ==
    /\ history = <<SavedWorkspace>>
    /\ currentIndex = 0
    /\ modalState = [type |-> "CLOSED"]
    /\ lastOp = [op |-> "init", arg |-> NULL, prev |-> "-"]
    /\ StoreUntracked

\* room for one more snapshot within the depth explored from the workspace
TasksRoom == currentIndex + 1 < MaxTaskSteps

TasksOpenCreateTask == TasksRoom /\ OpenCreateTask

TasksOpenEditTask == TasksRoom /\ OpenEditTask

TasksDeleteTask == TasksRoom /\ DeleteTask

TasksNext ==
    \/ TasksOpenCreateTask \/ TasksOpenEditTask \/ CloseModal \/ SaveTask
    \/ TasksDeleteTask \/ Undo \/ Redo

SpecTasks == TasksInit /\ [][TasksNext]_vars

(***************************************************************************)
(* The persistence: useLocalStorage and the effects of App.  The item      *)
(* under focusflow_data is the text JSON.stringify wrote; getItem gives     *)
(* null when the key is absent.  React commits a render after every change  *)
(* of state and runs its effects in the order of their declaration before   *)
(* the next event: the write effect of useLocalStorage, on mount the         *)
(* migration effect, then the persistence effect.  A setter called by an    *)
(* effect takes hold in the next render, which is committed in turn.        *)
(* lastOp.op is "mount" until the first commit.                             *)
(***************************************************************************)
\* getItem(key): null when the key is absent, the text otherwise
ABSENT == [present |-> FALSE, text |-> <<>>]

\* the item setItem(key, text) leaves
Item(text) == [present |-> TRUE, text |-> text]

\* JSON.parse of a text that JSON.stringify wrote
Parse(text) == [i \in 1..(Len(text) \div 2) |-> <<text[2 * i - 1], text[2 * i]>>]

\* useLocalStorage's useState initializer; raises: getItem or JSON.parse throws
ReadStored(item, raises) ==
    IF raises \/ item = ABSENT THEN EmptyState ELSE Parse(item.text)

\* the write effect of useLocalStorage without its try/catch
WriteEffect_NoCatch(item, storedValue, raises) ==
    LET serializedState == Stringify(storedValue)
    IN  IF raises THEN [item |-> item, thrown |-> TRUE]
        ELSE IF item = ABSENT /\ serializedState = Stringify(EmptyState)
        THEN [item |-> item, thrown |-> FALSE]
        ELSE [item |-> Item(serializedState), thrown |-> FALSE]

\* the write effect of useLocalStorage: the item it leaves, and whether an
\* exception leaves the effect; raises: getItem or setItem throws
WriteEffect(item, storedValue, raises) ==
    LET serializedState == Stringify(storedValue)
    IN  IF raises THEN [item |-> item, thrown |-> FALSE]
        ELSE IF item = ABSENT /\ serializedState = Stringify(EmptyState)
        THEN [item |-> item, thrown |-> FALSE]
        ELSE [item |-> Item(serializedState), thrown |-> FALSE]

\* the persistence effect of App that never calls setPersistedState
PersistenceEffect_Keep(state, persisted) == persisted

\* the persistence effect of App: storedValue of the next render
PersistenceEffect(state, persisted) ==
    IF Stringify(state) # Stringify(persisted) THEN state ELSE persisted

\* the documents under focusflow_data at mount: an empty workspace, a project
\* of an older schema, a project of the current schema
StoreDocs ==
    {EmptyState,
     << <<"projects", <<ProjectDoc(1, <<>>)>> >>, <<"tasks", <<>> >> >>,
     << <<"projects", <<ProjectDoc(1, FullProject)>> >>, <<"tasks", <<>> >>,
        <<"comments", <<>> >>, <<"activityLog", <<>> >> >>}

StoreItems == {ABSENT} \cup {Item(Stringify(d)) : d \in StoreDocs}

\* the backups handed to the import
StoreBackups ==
    {EmptyBackup,
     << <<"projects", <<ProjectDoc(2, FullProject)>> >>, <<"tasks", <<>> >> >>,
     << <<"projects", <<ProjectDoc(1, <<>>)>> >>, <<"tasks", <<TaskDoc(1, <<>>)>> >> >>}

StoreInit ==
    /\ \E item \in StoreItems : \E raises \in BOOLEAN :
        /\ localStorage = item
        /\ persistedState = ReadStored(item, raises)
        /\ lastOp = [op |-> "mount", arg |-> [raised |-> raises], prev |-> "-"]
    /\ history = <<persistedState>>
    /\ currentIndex = 0
    /\ modalState = [type |-> "CLOSED"]

\* every render has been committed
Settled == lastOp.op = "commit" /\ ~lastOp.arg.rerender

\* the effects of one commit
CommitEffects(raises) ==
    LET written == WriteEffect(localStorage, persistedState, raises)
        mount == lastOp.op = "mount"
        migrated == mount /\ needsMigration(persistedState)
    IN  /\ localStorage' = written.item
        /\ IF migrated
           THEN /\ persistedState' = migratedState(persistedState)
                /\ history' = ResetStateResult(migratedState(persistedState)).history
                /\ currentIndex' = ResetStateResult(migratedState(persistedState)).currentIndex
           ELSE /\ persistedState' = PersistenceEffect(State, persistedState)
                /\ UNCHANGED <<history, currentIndex>>
        /\ lastOp' = [op |-> "commit",
                      arg |-> [raised |-> raises, thrown |-> written.thrown,
                               mount |-> mount, migrated |-> migrated,
                               rerender |-> <<persistedState', history', currentIndex'>>
                                                # <<persistedState, history, currentIndex>>],
                      prev |-> "-"]
        /\ UNCHANGED modalState

\* a commit whose store calls succeed
Commit == ~Settled /\ CommitEffects(FALSE)

\* a commit in which the store raises
CommitRaising == ~Settled /\ CommitEffects(TRUE)

\* handleAddComment
StoreAddComment == Settled /\ LoadAddComment

\* Header undo
StoreUndo == Settled /\ canUndo /\ HistUndo

\* Header redo
StoreRedo == Settled /\ canRedo /\ HistRedo

\* handleImportData
StoreImport ==
    /\ Settled
    /\ \E data \in StoreBackups :
        /\ history' = ResetStateResult(handleImportData(data)).history
        /\ currentIndex' = ResetStateResult(handleImportData(data)).currentIndex
        /\ Note("import", [reset |-> TRUE, doc |-> data])
    /\ UNCHANGED modalState

StoreNext ==
    \/ Commit \/ CommitRaising
    \/ StoreAddComment \/ StoreUndo \/ StoreRedo \/ StoreImport

SpecStore == StoreInit /\ [][StoreNext]_vars

StoreLiveNext ==
    \/ Commit
    \/ StoreAddComment \/ StoreUndo \/ StoreRedo \/ StoreImport

\* no store write fails, and React commits every render
SpecStoreLive == StoreInit /\ [][StoreLiveNext]_vars /\ WF_vars(Commit)

(***************************************************************************)
(* Claims about the hook.                                                  *)
(***************************************************************************)
Accepted == lastOp'.op = "setState" /\ lastOp'.arg.acc

\* C3: undo directly after an accepted setState shows the snapshot that was
\* current before it; redo directly after an undo that moved shows the snapshot
\* the undo left; undo at cursor 0 and redo at the last index change nothing.
C3_UndoRedo ==
    [][ /\ Accepted =>
            history'[UndoIndex(history', currentIndex') + 1] = State
        /\ (lastOp'.op = "undo" /\ currentIndex > 0) =>
            /\ history' = history
            /\ history'[RedoIndex(history', currentIndex') + 1] = State
        /\ (lastOp'.op = "undo" /\ currentIndex = 0) =>
            UNCHANGED <<history, currentIndex>>
        /\ (lastOp'.op = "redo" /\ currentIndex = Len(history) - 1) =>
            UNCHANGED <<history, currentIndex>>
      ]_vars

\* an undo right after an accepted setState, not at the start of the history
C3_Witness ==
    /\ lastOp.op = "undo"
    /\ lastOp.prev = "setState"
    /\ lastOp.arg = currentIndex + 1
    /\ currentIndex > 0

\* C4 as stated: an accepted setState at cursor i keeps snapshots 0..i, puts the
\* new state at i+1 and leaves nothing after it.
C4_Original ==
    [][ Accepted =>
            /\ history' = Append(SubSeq(history, 1, currentIndex + 1), lastOp'.arg.v)
            /\ currentIndex' = currentIndex + 1
            /\ ~canRedo'
      ]_vars

\* C4 amended: as stated while i+1 is below the cap of 50; at i = 49 the oldest
\* snapshot is dropped, snapshots 1..49 are kept and the new state is at 49.
C4_Amended ==
    [][ Accepted =>
            /\ currentIndex + 1 < HistoryCap =>
                /\ history' = Append(SubSeq(history, 1, currentIndex + 1), lastOp'.arg.v)
                /\ currentIndex' = currentIndex + 1
            /\ currentIndex + 1 = HistoryCap =>
                /\ history' = Append(Tail(history), lastOp'.arg.v)
                /\ currentIndex' = currentIndex
            /\ ~canRedo'
      ]_vars

\* [S0,S1,S2], undo, setState(S3): the history is [S0,S1,S3]
C4_Witness ==
    /\ lastOp.op = "setState"
    /\ lastOp.arg.acc
    /\ lastOp.prev = "undo"
    /\ lastOp.arg.n = 3
    /\ lastOp.arg.i = 1
    /\ Len(history) = 3
    /\ currentIndex = 2

\* C5: the history never holds more than 50 snapshots; an accepted setState on
\* a full history whose cursor is last drops exactly the oldest snapshot, keeps
\* the other 49 in order and leaves the cursor on the pushed state, index 49.
C5_Cap ==
    /\ [](Len(history) <= HistoryCap)
    /\ [][ (Accepted /\ Len(history) = HistoryCap /\ currentIndex = HistoryCap - 1) =>
                /\ history' = Append(Tail(history), lastOp'.arg.v)
                /\ currentIndex' = HistoryCap - 1
                /\ State' = lastOp'.arg.v
         ]_vars

\* the 51st push has happened
C5_Witness ==
    /\ lastOp.op = "setState"
    /\ lastOp.arg.acc
    /\ lastOp.arg.n = HistoryCap
    /\ lastOp.arg.i = HistoryCap - 1
    /\ Len(history) = HistoryCap
    /\ currentIndex = HistoryCap - 1

\* C6: setState with a value deep-equal to the current state leaves the
\* history and the cursor as they are.
C6_DeepEqualNoop ==
    [][ (lastOp'.op = "setState" /\ DeepEqual(lastOp'.arg.v, State)) =>
            UNCHANGED <<history, currentIndex>>
      ]_vars

(***************************************************************************)
(* Claims about the handlers of App.                                       *)
(***************************************************************************)
\* the tasks of s in the sibling group (projectId, parentId)
Group(s, projectId, parentId) ==
    {t \in Range(Tasks(s)) : t.projectId = projectId /\ t.parentId = parentId}

\* the snapshot just below the cursor: the state an accepted setState started from
Before == history[currentIndex]

RECURSIVE HasAncestor(_, _, _, _)
\* whether following parentId links up from task t reaches id within n links
HasAncestor(t, id, tasks, n) ==
    /\ n > 0
    /\ t.parentId # NULL
    /\ \/ t.parentId = id
       \/ \E u \in Range(tasks) : u.id = t.parentId /\ HasAncestor(u, id, tasks, n - 1)

\* the transitive descendants of id
TransitiveDescendants(id, tasks) ==
    {t.id : t \in {x \in Range(tasks) : HasAncestor(x, id, tasks, Len(tasks))}}

\* C1: in every sibling group (projectId, parentId) the order values are
\* exactly 0..n-1, n being the size of the group.
C1_DenseOrders ==
    \A t \in Range(Tasks(State)) :
        LET group == Group(State, t.projectId, t.parentId)
        IN  {u.order : u \in group} = 0..(Cardinality(group) - 1)

\* C2: every task with a parentId has its parent among the tasks, in the
\* task's own project.
C2_ParentSameProject ==
    \A t \in Range(Tasks(State)) :
        t.parentId # NULL =>
            \E u \in Range(Tasks(State)) : u.id = t.parentId /\ u.projectId = t.projectId

\* C7: Delete Task removes the task and its N transitive descendants, N+1
\* tasks in all, and leaves every other task as it was.
C7_DeleteCascade ==
    [][ lastOp'.op = "deleteTask" =>
            LET doomed == {lastOp'.arg.id} \cup TransitiveDescendants(lastOp'.arg.id, Tasks(State))
            IN  /\ Tasks(State') = SelectSeq(Tasks(State), LAMBDA t : t.id \notin doomed)
                /\ Len(Tasks(State')) = Len(Tasks(State)) - Cardinality(doomed)
      ]_vars

\* a task was deleted together with a child and a grandchild
C7_Witness ==
    /\ lastOp.op = "deleteTask"
    /\ currentIndex > 0
    /\ Len(Tasks(Before)) = Len(Tasks(State)) + 3
    /\ \E t \in Range(Tasks(Before)) : \E u \in Range(Tasks(Before)) :
        /\ u.id = t.parentId /\ u.parentId = lastOp.arg.id

\* C8: Delete Project(id) removes the project, its tasks and its comments and
\* activityLog buckets, and leaves the other projects, the tasks of other
\* projects and the other buckets as they were.
C8_DeleteProject ==
    [][ lastOp'.op = "deleteProject" =>
            LET id == lastOp'.arg.id
            IN  /\ Projects(State') = SelectSeq(Projects(State), LAMBDA p : p.id # id)
                /\ Tasks(State') = SelectSeq(Tasks(State), LAMBDA t : t.projectId # id)
                /\ Keys(Comments(State')) = Keys(Comments(State)) \ {id}
                /\ Keys(ActivityLog(State')) = Keys(ActivityLog(State)) \ {id}
                /\ \A k \in Keys(Comments(State')) :
                        Get(Comments(State'), k) = Get(Comments(State), k)
                /\ \A k \in Keys(ActivityLog(State')) :
                        Get(ActivityLog(State'), k) = Get(ActivityLog(State), k)
      ]_vars

\* projects [P1,P2], tasks [T1(P1),T2(P2)], delete P1: projects [P2], tasks [T2]
C8_Witness ==
    /\ lastOp.op = "deleteProject"
    /\ currentIndex > 0
    /\ Len(Projects(Before)) = 2 /\ Len(Projects(State)) = 1
    /\ Len(Tasks(Before)) = 2 /\ Len(Tasks(State)) = 1
    /\ Has(ActivityLog(Before), lastOp.arg.id)
    /\ Tasks(State)[1].projectId = Projects(State)[1].id

\* C9: after an Edit Task that changes projectId or parentId, the tasks left
\* in the old sibling group have orders exactly 0..m-1, and the moved task has
\* the new projectId and parentId and an order equal to the number of tasks the
\* destination group held before the move.
C9_Move ==
    [][ ( /\ lastOp'.op = "editTask"
          /\ \/ lastOp'.arg.task.projectId # lastOp'.arg.projectId
             \/ lastOp'.arg.task.parentId # lastOp'.arg.parentId ) =>
            LET orig == lastOp'.arg.task
                oldGroup == Group(State', orig.projectId, orig.parentId)
                moved == {t \in Range(Tasks(State')) : t.id = orig.id}
            IN  /\ {t.order : t \in oldGroup} = 0..(Cardinality(oldGroup) - 1)
                /\ {t.id : t \in oldGroup} =
                        {t.id : t \in Group(State, orig.projectId, orig.parentId)} \ {orig.id}
                /\ Cardinality(moved) = 1
                /\ \A t \in moved :
                    /\ t.projectId = lastOp'.arg.projectId
                    /\ t.parentId = lastOp'.arg.parentId
                    /\ t.order = Cardinality(Group(State, lastOp'.arg.projectId, lastOp'.arg.parentId))
      ]_vars

\* a task moved into a group that held a task, out of a group whose remaining
\* task had to be renumbered
C9_Witness ==
    /\ lastOp.op = "editTask"
    /\ currentIndex > 0
    /\ \/ lastOp.arg.task.projectId # lastOp.arg.projectId
       \/ lastOp.arg.task.parentId # lastOp.arg.parentId
    /\ \E t \in Range(Tasks(State)) : t.id = lastOp.arg.id /\ t.order >= 1
    /\ \E t \in Range(Tasks(State)) : \E u \in Range(Tasks(Before)) :
        /\ t.id = u.id /\ t.id # lastOp.arg.id /\ t.order # u.order

(***************************************************************************)
(* Claims about handleReorder.                                             *)
(***************************************************************************)
IdsOf(list) == [i \in 1..Len(list) |-> list[i].id]

OrdersOf(list) == [i \in 1..Len(list) |-> list[i].order]

OrderIn(list, id) == (CHOOSE x \in Range(list) : x.id = id).order

\* the list is ordered [T1,T2,T3] by its order values
OrderedT1T2T3(list) ==
    /\ OrderIn(list, "T1") < OrderIn(list, "T2")
    /\ OrderIn(list, "T2") < OrderIn(list, "T3")

ReorderT1ToT3Top(op) ==
    /\ op.op = "reorder"
    /\ op.arg.draggedId = "T1" /\ op.arg.targetId = "T3" /\ op.arg.position = "top"

\* C10 as stated: Reorder(T1, T3, top) on a list ordered [T1,T2,T3] yields
\* [T3,T1,T2] with orders 0,1,2.
C10_Original ==
    [][ (ReorderT1ToT3Top(lastOp') /\ OrderedT1T2T3(Get(State, "list"))) =>
            /\ IdsOf(Get(State', "list")) = <<"T3", "T1", "T2">>
            /\ OrdersOf(Get(State', "list")) = <<0, 1, 2>>
      ]_vars

\* C10 amended: it yields [T2,T1,T3], T1 immediately before T3, with orders 0,1,2.
C10_Amended ==
    [][ (ReorderT1ToT3Top(lastOp') /\ OrderedT1T2T3(Get(State, "list"))) =>
            /\ IdsOf(Get(State', "list")) = <<"T2", "T1", "T3">>
            /\ OrdersOf(Get(State', "list")) = <<0, 1, 2>>
      ]_vars

\* Reorder(T1, T3, top) has been applied to a list ordered [T1,T2,T3]
C10_Witness ==
    /\ ReorderT1ToT3Top(lastOp)
    /\ currentIndex > 0
    /\ OrderedT1T2T3(Get(Before, "list"))
    /\ IdsOf(Get(State, "list")) = <<"T2", "T1", "T3">>

(***************************************************************************)
(* Claims about the load-time migration and the import.                    *)
(***************************************************************************)
\* C11: an import whose parsed top-level value does not have both projects and
\* tasks as arrays never resets: the history, the cursor and the current state
\* are what they were before the attempt.
C11_ImportRejected ==
    [][ ( /\ lastOp'.op = "import"
          /\ ~(lastOp'.arg.top = "object" /\ lastOp'.arg.arrays = {"projects", "tasks"}) ) =>
            /\ ~lastOp'.arg.reset
            /\ UNCHANGED <<history, currentIndex>>
            /\ State' = State
      ]_vars

\* a confirmed import of an object without a projects array, attempted with two
\* snapshots in the history
C11_Witness ==
    /\ lastOp.op = "import"
    /\ lastOp.arg.top = "object"
    /\ lastOp.arg.arrays = {"tasks"}
    /\ lastOp.arg.confirmed
    /\ Len(history) >= 2
    /\ currentIndex >= 1

\* every project and task of the document has the keys of the current schema
CurrentSchema(doc) ==
    /\ Has(doc, "comments") /\ Has(doc, "activityLog")
    /\ \A p \in Range(Projects(doc)) : OptionalKeys \subseteq Keys(p)
    /\ \A t \in Range(Tasks(doc)) : Has(t, "startDate")

\* the same objects in the same sequence, whatever the order of their keys
SameItems(xs, ys) ==
    /\ Len(xs) = Len(ys)
    /\ \A i \in 1..Len(xs) : DeepEqual(xs[i], ys[i])

\* the same projects, tasks, comments and activityLog values
SameDoc(x, y) ==
    /\ SameItems(Projects(x), Projects(y))
    /\ SameItems(Tasks(x), Tasks(y))
    /\ Comments(x) = Comments(y)
    /\ ActivityLog(x) = ActivityLog(y)

\* C12: the load-time migration and the import normalization return
\* current-schema data as it was given, and either normalization applied to its
\* own result returns that result.
C12_Idempotent ==
    [][ /\ (lastOp'.op = "migrate" /\ CurrentSchema(State)) =>
                SameDoc(State', State)
        /\ (lastOp'.op = "import" /\ lastOp'.arg.reset /\ CurrentSchema(lastOp'.arg.doc)) =>
                SameDoc(State', lastOp'.arg.doc)
        /\ (lastOp'.op = "migrate" /\ lastOp'.arg.reset) =>
                SameDoc(migratedState(State'), State')
        /\ (lastOp'.op = "import" /\ lastOp'.arg.reset) =>
                SameDoc(handleImportData(State'), State')
      ]_vars

\* C17: resetState(s), reached by an accepted import or by the load-time
\* migration, leaves the history [s] and the cursor 0 whatever they were; canUndo
\* and canRedo are false and undo and redo leave that one snapshot current.
C17_Reset ==
    [][ /\ (lastOp'.op \in {"import", "migrate"} /\ lastOp'.arg.reset) =>
            /\ history' = << IF lastOp'.op = "import"
                             THEN handleImportData(lastOp'.arg.doc)
                             ELSE migratedState(State) >>
            /\ currentIndex' = 0
            /\ ~canUndo' /\ ~canRedo'
            /\ UndoIndex(history', currentIndex') = 0
            /\ RedoIndex(history', currentIndex') = 0
        /\ (lastOp'.op \in {"undo", "redo"} /\ Len(history) = 1) =>
            UNCHANGED <<history, currentIndex>>
      ]_vars

\* an accepted import replaced a history of at least two snapshots whose cursor
\* was not at the start
C17_Witness ==
    /\ lastOp.op = "import"
    /\ lastOp.arg.reset
    /\ lastOp.arg.n >= 2
    /\ lastOp.arg.i >= 1
    /\ Len(history) = 1
    /\ currentIndex = 0

(***************************************************************************)
(* Claims about referential misses and the no-op check.                    *)
(***************************************************************************)
\* C15: Reorder whose draggedId or targetId is not in the list returns the
\* list as it was, same sequence and same order values, and through setState
\* pushes no history entry.
C15_ReorderMiss ==
    [][ ( /\ lastOp'.op = "reorder"
          /\ \/ lastOp'.arg.draggedId \notin Range(IdsOf(Get(State, "list")))
             \/ lastOp'.arg.targetId \notin Range(IdsOf(Get(State, "list"))) ) =>
            /\ handleReorder(lastOp'.arg.draggedId, lastOp'.arg.targetId,
                             Get(State, "list"), lastOp'.arg.position) = Get(State, "list")
            /\ State' = State
            /\ UNCHANGED <<history, currentIndex>>
      ]_vars

\* T1 was dropped on a target that is not in the list, after a reorder that
\* was accepted
C15_Witness ==
    /\ lastOp.op = "reorder"
    /\ lastOp.arg.draggedId = "T1"
    /\ lastOp.arg.targetId = "T9"
    /\ Len(history) = 2
    /\ currentIndex = 1

\* C16: a candidate with the keys and values of the current state, inserted in
\* another order, is equal to it for setState's no-op check and pushes nothing.
C16_KeyOrderIgnored ==
    [][ ( /\ lastOp'.op = "setState"
          /\ lastOp'.arg.v # State
          /\ Keys(lastOp'.arg.v) = Keys(State)
          /\ \A k \in Keys(State) : Get(lastOp'.arg.v, k) = Get(State, k) ) =>
            /\ ~lastOp'.arg.acc
            /\ Len(history') = Len(history)
            /\ currentIndex' = currentIndex
      ]_vars

C19_Acyclic ==
    \A t \in Range(Tasks(State)) :
        ~HasAncestor(t, t.id, Tasks(State), Len(Tasks(State)))

\* a task that has a sub-task was moved under another task
C19_Witness ==
    /\ lastOp.op = "editTask"
    /\ currentIndex > 0
    /\ lastOp.arg.parentId # NULL
    /\ lastOp.arg.parentId # lastOp.arg.task.parentId
    /\ \E t \in Range(Tasks(State)) : t.parentId = lastOp.arg.id
    /\ \E t \in Range(Tasks(State)) : t.id = lastOp.arg.id /\ t.parentId = lastOp.arg.parentId

(***************************************************************************)
(* Claims about operations on ids that are no longer in the state.         *)
(***************************************************************************)
\* C13: Edit Project and Edit Task, with or without a move, on an id that is
\* not in the current state leave the state as it is and push nothing.
C13_EditAbsent ==
    [][ /\ (lastOp'.op = "editProject" /\ lastOp'.arg.id \notin ProjectIdsOf(State)) =>
            /\ State' = State
            /\ UNCHANGED <<history, currentIndex>>
        /\ (lastOp'.op = "editTask" /\ lastOp'.arg.id \notin TaskIdsOf(State)) =>
            /\ State' = State
            /\ UNCHANGED <<history, currentIndex>>
      ]_vars

\* the ids an operation was applied to
TargetIds(op) ==
    IF op.op \in {"bulkDelete", "bulkArchive"} THEN op.arg.ids ELSE {op.arg.id}

\* C14: Delete Task, Delete Project, Bulk Delete, Toggle Archive, Bulk Archive,
\* Update Task Status and Toggle Task Focus on ids that match no project and no
\* task of the current state leave the history and the cursor as they are.
C14_MissNoop ==
    [][ ( /\ lastOp'.op \in {"deleteTask", "deleteProject", "bulkDelete", "toggleArchive",
                             "bulkArchive", "updateTaskStatus", "toggleTaskFocus"}
          /\ TargetIds(lastOp') \cap (ProjectIdsOf(State) \cup TaskIdsOf(State)) = {} ) =>
            UNCHANGED <<history, currentIndex>>
      ]_vars

(***************************************************************************)
(* Claims about the activity log.                                          *)
(***************************************************************************)
\* xs is a prefix of ys
IsPrefix(xs, ys) == Len(xs) <= Len(ys) /\ SubSeq(ys, 1, Len(xs)) = xs

\* C20: over every step that is not an undo, a redo or a reset, the log of each
\* project that exists before and after is a prefix of its log afterwards:
\* entries are only appended, also when the Dashboard is displayed.
C20_AppendOnly ==
    [][ lastOp'.op \notin {"undo", "redo", "import", "migrate", "resetState"} =>
            \A k \in ProjectIdsOf(State) \cap ProjectIdsOf(State') :
                Has(ActivityLog(State), k) =>
                    /\ Has(ActivityLog(State'), k)
                    /\ IsPrefix(Get(ActivityLog(State), k), Get(ActivityLog(State'), k))
      ]_vars

\* C23: on every input with projects and tasks arrays that triggers the
\* load-time migration, the import normalization produces the projects, tasks,
\* comments and activityLog values that the migration produces.
C23_SameDefaulting ==
    [][ (lastOp'.op = "import" /\ lastOp'.arg.reset /\ needsMigration(lastOp'.arg.doc)) =>
            SameDoc(State', migratedState(lastOp'.arg.doc))
      ]_vars

\* startDate of every task that has the key in doc is the same in result
KeepsPresentStartDates(doc, result) ==
    /\ Len(Tasks(result)) = Len(Tasks(doc))
    /\ \A i \in 1..Len(Tasks(doc)) :
        Has(Tasks(doc)[i], "startDate") =>
            Prop(Tasks(result)[i], "startDate") = Prop(Tasks(doc)[i], "startDate")

\* C24: the load-time migration and the import replace a task's startDate only
\* when the key is absent, so a startDate that is present, null included, is
\* kept; and a state of the current schema does not trigger the migration.
C24_StartDateAbsentOnly ==
    [][ /\ (lastOp'.op = "migrate" /\ lastOp'.arg.reset) =>
                KeepsPresentStartDates(State, State')
        /\ (lastOp'.op = "import" /\ lastOp'.arg.reset) =>
                KeepsPresentStartDates(lastOp'.arg.doc, State')
        /\ (lastOp'.op = "migrate" /\ CurrentSchema(State)) =>
                ~lastOp'.arg.reset
      ]_vars

(***************************************************************************)
(* Claims about the task handlers.                                         *)
(***************************************************************************)
\* the logs of after are those of before with n entries appended to the log of
\* each project in grown, and nothing else changed
LogsGrew(before, after, grown, n) ==
    /\ Keys(ActivityLog(before)) \cup grown = Keys(ActivityLog(after))
    /\ \A k \in Keys(ActivityLog(after)) :
        LET old == IF Has(ActivityLog(before), k) THEN Get(ActivityLog(before), k) ELSE <<>>
            new == Get(ActivityLog(after), k)
        IN  IF k \in grown
            THEN Len(new) = Len(old) + n /\ IsPrefix(old, new)
            ELSE new = old

\* C25: Update Task Status with the task's current status pushes nothing and
\* keeps the history, the cursor and every log; with another status it pushes
\* a state in which only that task's status differs and the log of the task's
\* project has exactly one more entry.
C25_UpdateTaskStatus ==
    [][ lastOp'.op = "updateTaskStatus" =>
            LET id == lastOp'.arg.id
                status == lastOp'.arg.status
                task == Find(Tasks(State), id)
            IN  IF task.status = status
                THEN UNCHANGED <<history, currentIndex>>
                ELSE /\ currentIndex' = currentIndex + 1
                     /\ Len(history') = currentIndex' + 1
                     /\ SubSeq(history', 1, currentIndex + 1) = SubSeq(history, 1, currentIndex + 1)
                     /\ Projects(State') = Projects(State)
                     /\ Comments(State') = Comments(State)
                     /\ Len(Tasks(State')) = Len(Tasks(State))
                     /\ \A i \in 1..Len(Tasks(State)) :
                            Tasks(State')[i] =
                                IF Tasks(State)[i].id = id
                                THEN [Tasks(State)[i] EXCEPT !.status = status]
                                ELSE Tasks(State)[i]
                     /\ LogsGrew(State, State', {task.projectId}, 1)
      ]_vars

\* Update Task Status was called with the task's current status while a
\* snapshot could be redone
C25_Witness ==
    /\ lastOp.op = "updateTaskStatus"
    /\ Find(Tasks(State), lastOp.arg.id).status = lastOp.arg.status
    /\ currentIndex < Len(history) - 1

\* C26: no two tasks of one sibling group (projectId, parentId) have the same
\* order value.
C26_UniqueOrders ==
    \A t, u \in Range(Tasks(State)) :
        (t.id # u.id /\ t.projectId = u.projectId /\ t.parentId = u.parentId) =>
            t.order # u.order

\* C27: an Edit Task move renumbers the old sibling group stably, a before b
\* afterwards exactly when a was before b, and leaves every task outside the
\* old group, the moved one excepted, as it was.
C27_StableRenumber ==
    [][ ( /\ lastOp'.op = "editTask"
          /\ \/ lastOp'.arg.task.projectId # lastOp'.arg.projectId
             \/ lastOp'.arg.task.parentId # lastOp'.arg.parentId ) =>
            LET orig == lastOp'.arg.task
                others == {t \in Range(Tasks(State)) : t.id # orig.id}
                oldGroup == {t \in others : t.projectId = orig.projectId
                                            /\ t.parentId = orig.parentId}
            IN  /\ \A a, b \in oldGroup :
                       (Find(Tasks(State'), a.id).order < Find(Tasks(State'), b.id).order)
                           <=> (a.order < b.order)
                /\ \A t \in others \ oldGroup : Find(Tasks(State'), t.id) = t
      ]_vars

(***************************************************************************)
(* Claims about Reorder with both ids in the list.                         *)
(***************************************************************************)
\* the index of the item with this id
PosIn(list, id) == CHOOSE i \in 1..Len(list) : list[i].id = id

\* result holds the ids of list, the dragged item next to the target on the
\* side position names, the other items in the sequence of their previous
\* order values, and order values 0..n-1 along the sequence
Reordered(list, result, draggedId, targetId, position) ==
    /\ Len(result) = Len(list)
    /\ Range(IdsOf(result)) = Range(IdsOf(list))
    /\ IF position = "bottom"
       THEN PosIn(result, draggedId) = PosIn(result, targetId) + 1
       ELSE PosIn(result, draggedId) + 1 = PosIn(result, targetId)
    /\ \A a, b \in Range(IdsOf(list)) \ {draggedId} :
        OrderIn(list, a) < OrderIn(list, b) => PosIn(result, a) < PosIn(result, b)
    /\ OrdersOf(result) = [i \in 1..Len(result) |-> i - 1]

\* C28 as stated: Reorder with a dragged id and a target id both in the list
\* returns the same ids with the dragged item immediately before the target
\* (top) or immediately after it (bottom), the others in their previous order,
\* and order values 0..n-1.
C28_Original ==
    [][ ( /\ lastOp'.op = "reorder"
          /\ {lastOp'.arg.draggedId, lastOp'.arg.targetId} \subseteq Range(IdsOf(Get(State, "list"))) ) =>
            Reordered(Get(State, "list"), Get(State', "list"),
                      lastOp'.arg.draggedId, lastOp'.arg.targetId, lastOp'.arg.position)
      ]_vars

\* C28 amended: this holds when the two ids are different; an item dropped on
\* itself leaves the list as it was, order values included.
C28_Amended ==
    [][ ( /\ lastOp'.op = "reorder"
          /\ {lastOp'.arg.draggedId, lastOp'.arg.targetId} \subseteq Range(IdsOf(Get(State, "list"))) ) =>
            IF lastOp'.arg.draggedId = lastOp'.arg.targetId
            THEN State' = State /\ UNCHANGED <<history, currentIndex>>
            ELSE Reordered(Get(State, "list"), Get(State', "list"),
                           lastOp'.arg.draggedId, lastOp'.arg.targetId, lastOp'.arg.position)
      ]_vars

\* T3 was dropped below T1 in a list in which T3 came before T1
C28_Witness ==
    /\ lastOp.op = "reorder"
    /\ lastOp.arg.draggedId = "T3" /\ lastOp.arg.targetId = "T1" /\ lastOp.arg.position = "bottom"
    /\ currentIndex > 0
    /\ OrderIn(Get(Before, "list"), "T3") < OrderIn(Get(Before, "list"), "T1")
    /\ PosIn(Get(State, "list"), "T3") = PosIn(Get(State, "list"), "T1") + 1

\* the action of the newest entry in the log of project k
LastAction(s, k) == Get(ActivityLog(s), k)[Len(Get(ActivityLog(s), k))].action

\* C29: an Edit Task that changes projectId appends exactly one "moved task"
\* entry to the destination's log and exactly one "edited task" entry to the
\* original project's log; one that keeps projectId appends exactly one
\* "edited task" entry to the task's project; no other log changes.
C29_EditTaskLogs ==
    [][ lastOp'.op = "editTask" =>
            LET orig == lastOp'.arg.task
                dest == lastOp'.arg.projectId
            IN  IF orig.projectId # dest
                THEN /\ LogsGrew(State, State', {orig.projectId, dest}, 1)
                     /\ LastAction(State', dest) = "moved task"
                     /\ LastAction(State', orig.projectId) = "edited task"
                ELSE /\ LogsGrew(State, State', {orig.projectId}, 1)
                     /\ LastAction(State', orig.projectId) = "edited task"
      ]_vars

\* a task was moved to another project, and the state before is kept
C29_Witness ==
    /\ lastOp.op = "editTask"
    /\ lastOp.arg.task.projectId # lastOp.arg.projectId
    /\ currentIndex > 0
    /\ Len(Get(ActivityLog(State), lastOp.arg.projectId))
            = Len(Get(ActivityLog(Before), lastOp.arg.projectId)) + 1

\* C30: Create Task adds exactly one task, not focused, in the group of the
\* form's projectId and parentId, with order one more than the largest order of
\* that group (0 when it is empty); the existing tasks stay as they were and
\* the log of projectId gains exactly one entry.
C30_CreateTask ==
    [][ lastOp'.op = "createTask" =>
            LET n == Len(Tasks(State))
                orders == {t.order : t \in Group(State, modalState.projectId, modalState.parentId)}
                newTask == Tasks(State')[n + 1]
            IN  /\ Len(Tasks(State')) = n + 1
                /\ SubSeq(Tasks(State'), 1, n) = Tasks(State)
                /\ newTask.id = lastOp'.arg.id
                /\ newTask.id \notin TaskIdsOf(State)
                /\ newTask.projectId = modalState.projectId
                /\ newTask.parentId = modalState.parentId
                /\ newTask.isFocused = FALSE
                /\ newTask.order = IF orders = {} THEN 0
                                   ELSE (CHOOSE m \in orders : \A o \in orders : o <= m) + 1
                /\ Projects(State') = Projects(State)
                /\ Comments(State') = Comments(State)
                /\ LogsGrew(State, State', {modalState.projectId}, 1)
      ]_vars

\* a task was created in a group whose only task had order 1
C30_Witness ==
    /\ lastOp.op = "createTask"
    /\ currentIndex > 0
    /\ LET newTask == Find(Tasks(State), lastOp.arg.id)
       IN  /\ newTask.order = 2
           /\ {t.order : t \in Group(Before, newTask.projectId, newTask.parentId)} = {1}

(***************************************************************************)
(* Claims about the persistence.                                           *)
(***************************************************************************)
\* C21: a store call that raises changes no in-memory state and lets no
\* exception out: a read that raises at mount leaves the initial value as the
\* only snapshot; a commit in which the write raises leaves the history and
\* the cursor as a successful one does (the migration's reset on mount) and
\* storedValue equal to the current state; an undo or redo right after it
\* moves the cursor as ever.
C21_StoreFailure ==
    [][ /\ (lastOp.op = "mount" /\ lastOp.arg.raised) =>
                /\ history = <<EmptyState>> /\ currentIndex = 0
                /\ persistedState = EmptyState
        /\ (lastOp'.op = "commit" /\ lastOp'.arg.raised) =>
                /\ ~lastOp'.arg.thrown
                /\ IF lastOp'.arg.migrated
                   THEN history' = <<migratedState(State)>> /\ currentIndex' = 0
                   ELSE UNCHANGED <<history, currentIndex>>
                /\ persistedState' = State'
                /\ localStorage' = localStorage
        /\ (lastOp.op = "commit" /\ lastOp.arg.raised /\ lastOp'.op = "undo") =>
                /\ currentIndex' = currentIndex - 1 /\ history' = history
        /\ (lastOp.op = "commit" /\ lastOp.arg.raised /\ lastOp'.op = "redo") =>
                /\ currentIndex' = currentIndex + 1 /\ history' = history
      ]_vars

\* an undo right after commits whose writes raised: the item is not the text
\* of the state the undo left
C21_Witness ==
    /\ lastOp.op = "undo"
    /\ lastOp.prev = "commit"
    /\ currentIndex + 2 <= Len(history)
    /\ localStorage # Item(Stringify(history[currentIndex + 2]))
    /\ persistedState = history[currentIndex + 2]

\* the item is the text of the snapshot at the cursor, or the key is absent
\* and that snapshot is the default empty state
Synced ==
    \/ localStorage = Item(Stringify(State))
    \/ localStorage = ABSENT /\ Stringify(State) = Stringify(EmptyState)

\* the last step changed the current state
Changed ==
    \/ lastOp.op \in {"addComment", "undo", "redo", "import"}
    \/ lastOp.op = "commit" /\ lastOp.arg.migrated

\* C22: when no store write fails, every change of the current state (accepted
\* setState, undo, redo, import, migration) leads to the item being the text
\* of the snapshot at the cursor, and nothing is written while the key is
\* absent and storedValue is the default empty state.
C22_EventuallyStored ==
    /\ Changed ~> Synced
    /\ [][ (localStorage = ABSENT /\ Stringify(persistedState) = Stringify(EmptyState)) =>
                localStorage' = ABSENT ]_vars

\* a commit stored the snapshot at the cursor, one of three, after an undo
C22_Witness ==
    /\ Settled
    /\ Len(history) = 3 /\ currentIndex = 1
    /\ localStorage = Item(Stringify(State))
    /\ localStorage # Item(Stringify(history[3]))


(***************************************************************************)
(* App with an import that finishes while a form is open, its file being a *)
(* backup exported from an earlier state of the same workspace: the form    *)
(* keeps the project it was opened on while the import replaces the state.  *)
(***************************************************************************)
\* Header handleExport: the data written to the downloaded file
handleExport(s) == << <<"projects", Projects(s)>>, <<"tasks", Tasks(s)>> >>

\* reader.onload and handleImportData on a backup exported from a state the
\* workspace was in; its projects carry every field, so the defaults of
\* handleImportData change none of them
ImportBackupWhileOpen ==
    /\ ~Closed
    /\ \E i \in 1..Len(history) :
        LET data == handleExport(history[i])
            migratedData == << <<"projects", Get(data, "projects")>>,
                               <<"tasks", Get(data, "tasks")>>,
                               <<"comments", <<>> >>, <<"activityLog", <<>> >> >>
        IN  /\ history' = ResetStateResult(migratedData).history
            /\ currentIndex' = ResetStateResult(migratedData).currentIndex
    /\ Note("import", [reset |-> TRUE])
    /\ UNCHANGED modalState

MaxEditSteps == 4

\* room for one more snapshot within the depth explored with the import
EditRoom == currentIndex + 1 < MaxEditSteps

EditOpenCreateProject == EditRoom /\ OpenCreateProject

EditOpenEditProject == EditRoom /\ OpenEditProject

EditToggleArchive == EditRoom /\ ToggleArchive

EditReorderProjects == EditRoom /\ ReorderProjects

\* handleReorderProjects(id, id): a project dropped on itself
EditReorderSame ==
    /\ Closed /\ EditRoom
    /\ \E id \in ProjectIdsOf(State) :
        /\ SetState(ReorderProjectsUpdate(State, id, id))
        /\ Note("reorderProjects", [draggedId |-> id, targetId |-> id])
    /\ UNCHANGED modalState

EditNext ==
    \/ EditOpenCreateProject \/ EditOpenEditProject \/ CloseModal \/ SaveProject
    \/ EditToggleArchive \/ EditReorderProjects \/ EditReorderSame \/ ImportBackupWhileOpen

SpecEdit == Init /\ [][EditNext]_vars

(***************************************************************************)
(* C31                                                                     *)
(***************************************************************************)
\* C31: Edit Project on a project of the current state keeps the id, order and
\* isArchived that project has in the current state when the edit is applied,
\* changes no other project, keeps tasks and comments, and appends exactly one
\* entry to the project's log; also when the state under the open form was
\* replaced in between.
C31_EditProject ==
    [][ (lastOp'.op = "editProject" /\ lastOp'.arg.id \in ProjectIdsOf(State)) =>
            LET id == lastOp'.arg.id
            IN  /\ Len(Projects(State')) = Len(Projects(State))
                /\ \A i \in 1..Len(Projects(State)) :
                    LET p == Projects(State)[i]
                        q == Projects(State')[i]
                    IN  IF p.id = id
                        THEN q.id = p.id /\ q.order = p.order /\ q.isArchived = p.isArchived
                        ELSE q = p
                /\ Tasks(State') = Tasks(State)
                /\ Comments(State') = Comments(State)
                /\ LogsGrew(State, State', {id}, 1)
      ]_vars

(***************************************************************************)
(* C32                                                                     *)
(***************************************************************************)
RECURSIVE DeleteEach(_, _)
\* confirmDeleteProject applied to each id of a sequence, one after the other
DeleteEach(s, ids) ==
    IF Len(ids) = 0 THEN s ELSE DeleteEach(DeleteProjectUpdate(s, ids[1]), Tail(ids))

\* the orders in which the ids of a set can be taken
Orderings(ids) ==
    {f \in [1..Cardinality(ids) -> ids] : \A i, j \in 1..Cardinality(ids) : f[i] = f[j] => i = j}

MaxClosureTasks == 3

\* a parentId a task of a document can carry: none, a task of the collection
\* (itself included), a task that is missing
LinkedTask(i, parentId) ==
    [id |-> TaskIdPool[i], projectId |-> "p1", parentId |-> parentId,
     isFocused |-> FALSE, order |-> i - 1, title |-> "a", status |-> "To Do"]

LinkedTasks ==
    UNION {{[i \in 1..n |-> LinkedTask(i, f[i])] :
                f \in [1..n -> {NULL, "t9"} \cup {TaskIdPool[j] : j \in 1..n}]} :
           n \in 1..MaxClosureTasks}

ClosureInit ==
    /\ history \in {<< << <<"projects", <<[id |-> "p1", order |-> 0, isArchived |-> FALSE, name |-> "n"]>> >>,
                          <<"tasks", tasks>>,
                          <<"comments", <<>> >>, <<"activityLog", <<>> >> >> >> : tasks \in LinkedTasks}
    /\ currentIndex = 0
    /\ modalState = [type |-> "CLOSED"]
    /\ lastOp = [op |-> "init", arg |-> NULL, prev |-> "-"]
    /\ StoreUntracked

RECURSIVE DeleteScans(_, _)
\* the number of forEach passes the while (search) loop of handleDeleteTask makes
DeleteScans(tasks, tasksToDelete) ==
    LET scanned == DeleteScan(tasks, 1, tasksToDelete)
    IN  IF Cardinality(scanned) > Cardinality(tasksToDelete)
        THEN 1 + DeleteScans(tasks, scanned)
        ELSE 1

\* Dashboard onDeleteTask
ClosureDeleteTask ==
    /\ \E t \in Range(Tasks(State)) :
        /\ SetState(DeleteTaskUpdate(State, t.id))
        /\ Note("deleteTask", [id |-> t.id, scans |-> DeleteScans(Tasks(State), {t.id})])
    /\ UNCHANGED modalState

ClosureNext == ClosureDeleteTask

SpecClosure == ClosureInit /\ [][ClosureNext]_vars

(***************************************************************************)
(* C33                                                                     *)
(***************************************************************************)
\* the target and the tasks reachable from it through parentId links: the
\* least set that holds the target and every task whose parent it holds
ReachableFrom(tasks, taskId) ==
    LET ids == {t.id : t \in Range(tasks)}
        closed == {S \in SUBSET ids :
                      /\ taskId \in S
                      /\ \A t \in Range(tasks) : t.parentId \in S => t.id \in S}
    IN  {x \in ids : \A S \in closed : x \in S}

\* C33: Delete Task's closure finishes after at most one scan per task plus
\* one, whatever the parentId links are, and the tasks removed are exactly the
\* target and the tasks reachable from it.
C33_Closure ==
    [][ lastOp'.op = "deleteTask" =>
            /\ lastOp'.arg.scans <= Len(Tasks(State)) + 1
            /\ Tasks(State') =
                 SelectSeq(Tasks(State),
                           LAMBDA t : t.id \notin ReachableFrom(Tasks(State), lastOp'.arg.id))
      ]_vars

\* a delete in a collection whose links form a cycle through the target: the
\* target has a parent, every task was reachable from it, and the closure took
\* three scans
C33_Witness ==
    /\ lastOp.op = "deleteTask"
    /\ lastOp.arg.scans = 3
    /\ Len(Tasks(Before)) = 3
    /\ Find(Tasks(Before), lastOp.arg.id).parentId \in TaskIdsOf(Before) \ {lastOp.arg.id}
    /\ Tasks(State) = <<>>

(***************************************************************************)
(* C34                                                                     *)
(***************************************************************************)
\* C34: the history is never empty and the cursor always points at one of its
\* snapshots, across setState (with the eviction at the cap), undo, redo and
\* resetState; resetState leaves the one-entry history and the cursor 0 in the
\* same step, whatever the cursor was.
C34_DefinedSnapshot ==
    /\ [](Len(history) >= 1 /\ currentIndex >= 0 /\ currentIndex <= Len(history) - 1)
    /\ [][ lastOp'.op = "resetState" =>
               history' = <<lastOp'.arg.v>> /\ currentIndex' = 0 ]_vars

\* resetState was called with the cursor on the third of three snapshots
C34_Witness ==
    /\ lastOp.op = "resetState"
    /\ lastOp.arg.n = 3
    /\ lastOp.arg.i = 2
    /\ history = <<lastOp.arg.v>>
    /\ currentIndex = 0

(***************************************************************************)
(* C35                                                                     *)
(***************************************************************************)
\* C35: a snapshot that stays in the history keeps the value it was pushed
\* with: a push keeps every snapshot up to the cursor as it was, and an undo, a
\* redo, a step that pushes nothing and a render of the dashboard keep all of
\* them.
C35_Immutable ==
    [][ \A i \in 1..Len(history) :
            ( /\ i <= Len(history')
              /\ \/ i <= currentIndex + 1
                 \/ lastOp'.op \in {"undo", "redo", "render", "none"} ) =>
                history'[i] = history[i]
      ]_vars

(***************************************************************************)
(* C36                                                                     *)
(***************************************************************************)
\* C36: in every state reached from the empty state each key of the comments
\* map and of the activityLog map is the id of a project of that state.
C36_BucketsHaveProjects ==
    Keys(Comments(State)) \cup Keys(ActivityLog(State)) \subseteq ProjectIdsOf(State)

(***************************************************************************)
(* C37                                                                     *)
(***************************************************************************)
\* C37: from the empty state no two projects of a state have the same order;
\* Create Project gives the new project the largest order plus one (0 when
\* there is no project) and Reorder Projects leaves the projects numbered
\* 0..n-1 in array order.
C37_ProjectOrders ==
    /\ [](\A i, j \in 1..Len(Projects(State)) :
            Projects(State)[i].order = Projects(State)[j].order => i = j)
    /\ [][ /\ lastOp'.op = "createProject" =>
                Find(Projects(State'), lastOp'.arg.id).order = MaxOrder(Projects(State)) + 1
           /\ lastOp'.op = "reorderProjects" =>
                \A i \in 1..Len(Projects(State')) : Projects(State')[i].order = i - 1
         ]_vars

\* Reorder Projects on two projects whose orders had a gap left by a deleted
\* project
C37_Witness ==
    /\ lastOp.op = "reorderProjects"
    /\ Len(Projects(Before)) = 2
    /\ {p.order : p \in Range(Projects(Before))} = {1, 2}
    /\ {p.order : p \in Range(Projects(State))} = {0, 1}

(***************************************************************************)
(* C38                                                                     *)
(***************************************************************************)
\* C38: Reorder Projects keeps the set of project ids, every field of every
\* project other than order, and the tasks, comments and activityLog; with the
\* dragged project dropped on itself it leaves the state, the history and the
\* cursor as they are.
C38_ReorderFrame ==
    [][ lastOp'.op = "reorderProjects" =>
            /\ Len(Projects(State')) = Len(Projects(State))
            /\ ProjectIdsOf(State') = ProjectIdsOf(State)
            /\ \A p \in Range(Projects(State)) :
                [Find(Projects(State'), p.id) EXCEPT !.order = p.order] = p
            /\ Tasks(State') = Tasks(State)
            /\ Comments(State') = Comments(State)
            /\ ActivityLog(State') = ActivityLog(State)
            /\ lastOp'.arg.draggedId = lastOp'.arg.targetId =>
                  State' = State /\ UNCHANGED <<history, currentIndex>>
      ]_vars

\* two projects, one of them archived, changed places and orders
C38_Witness ==
    /\ lastOp.op = "reorderProjects"
    /\ lastOp.arg.draggedId # lastOp.arg.targetId
    /\ currentIndex > 0
    /\ Len(Projects(Before)) = 2
    /\ Len(Projects(State)) = 2
    /\ \E p \in Range(Projects(Before)) : p.isArchived
    /\ ActivityLog(State) = ActivityLog(Before) /\ ActivityLog(State) # <<>>
    /\ Projects(State)[1].id = Projects(Before)[2].id
    /\ Projects(State)[1].order # Projects(Before)[2].order

(***************************************************************************)
(* App with the backup: the Header exports the current projects and tasks  *)
(* to a file, and that file is imported again.                             *)
(***************************************************************************)
\* JSON.parse(JSON.stringify(o)) of an object: a key whose value is undefined
\* is left out, every other key keeps its place and value
Reparsed(o) == SelectSeq(o, LAMBDA pair : pair[2] # UNDEFINED)

\* the downloaded file of handleExport as handleFileChange reads it
ExportedFile(s) ==
    [top |-> "object", nonArrays |-> {},
     obj |-> << <<"projects", Map(Get(handleExport(s), "projects"), Reparsed)>>,
                <<"tasks", Map(Get(handleExport(s), "tasks"), Reparsed)>> >>]

\* Header handleExport, then handleFileChange and reader.onload on the file
ExportImport ==
    /\ lastOp.op # "mount"
    /\ \E confirmed \in BOOLEAN :
        LET file == ExportedFile(State)
        IN  /\ IF ValidImport(file) /\ confirmed
               THEN /\ history' = ResetStateResult(handleImportData(file.obj)).history
                    /\ currentIndex' = ResetStateResult(handleImportData(file.obj)).currentIndex
               ELSE UNCHANGED <<history, currentIndex>>
            /\ StoreIdle
            /\ lastOp' = [op |-> "import", arg |-> ImportInfo(file, confirmed), prev |-> "-"]
    /\ UNCHANGED modalState

BackupNext == MigrationEffect \/ ExportImport \/ LoadAddComment \/ LoadUndo \/ LoadRedo

SpecBackup == LoadInit /\ [][BackupNext]_vars

(***************************************************************************)
(* C39                                                                     *)
(***************************************************************************)
\* C39: the import of the file exported from a state of the current schema
\* leaves one snapshot whose projects and tasks are those of the exported
\* state, a null startDate included, and whose comments and activityLog are
\* empty.
C39_RoundTrip ==
    [][ (lastOp'.op = "import" /\ lastOp'.arg.reset /\ CurrentSchema(State)) =>
            /\ SameItems(Projects(State'), Projects(State))
            /\ SameItems(Tasks(State'), Tasks(State))
            /\ Comments(State') = <<>>
            /\ ActivityLog(State') = <<>>
            /\ Len(history') = 1
            /\ currentIndex' = 0
      ]_vars

=============================================================================
